---------------------------- MODULE Spec2Model ----------------------------
(***************************************************************************)
(* A model of the literature-review pipeline of AI-LitReview:              *)
(*   refining_agent.py         citation extraction, validation, refinement *)
(*   literature_agent.py       LitReviewPapersAgent.run                    *)
(*   paper_selection_agent.py  PaperSelectionAgent.select_papers           *)
(*   pubmed_search_agent.py    the PubMedSearchAgent that run calls        *)
(*   async_test2.py            the asynchronous PubMedSearchAgent          *)
(*   scholar_search.py         scholar_and_pubmed_search                   *)
(* Python strings are sequences of one-character strings, so that strip,   *)
(* split, replace and the regular expressions are modelled by what they do *)
(* to the characters.                                                      *)
(***************************************************************************)
EXTENDS Integers, Sequences, FiniteSets, TLC

VARIABLES
    pc,              \* position of the operation being run
    \* ---- refining_agent.py
    llm_cites,       \* the numbers the writer of the text meant to cite, in text order
    llm_entries,     \* the number of entries the writer put in the bibliography
    llm_tail,        \* how the writer set the reference list: "none", "dashed", "plain"
    review_text,     \* argument review_text
    bibliography,    \* argument bibliography
    refined_text,    \* the stripped reply of the model call in refine_review
    citations,       \* outcome of extract_citations
    valid,           \* outcome of verify_citations
    refined,         \* outcome of refine_review
    \* ---- literature_agent.py, LitReviewPapersAgent.run
    events,          \* the steps run has taken, in order
    initial_review,  \* the stripped draft of the composing model call
    final_review,    \* the document run returns
    error,           \* the exception that has left the call, "none" if none
    \* ---- paper_selection_agent.py, PaperSelectionAgent.select_papers
    df,              \* argument df: the records of the metadata client, in order
    scholar_results, \* argument scholar_results
    topic,           \* argument topic
    num_papers,      \* self.num_papers, the target selection size
    content,         \* the reply of the ranking model call
    sel,             \* the frames select_papers builds, final_df last
    \* ---- async_test2.py, PubMedSearchAgent.search_pubmed
    phrases,         \* argument phrases
    phrase,          \* position in phrases of the phrase being processed
    attempt,         \* the loop variable of _async_get_json, 0 outside the helper
    sent,            \* the search requests issued for the phrase being processed
    errors_seen,     \* how many of their responses had an "error" key
    data,            \* the last search response read
    idlist,          \* the identifiers read from data
    task,            \* the position of each detail-fetch task of the phrase
    result,          \* what each finished detail-fetch task returned
    permits,         \* the value of self.semaphore
    all_articles,    \* the records collected so far
    completed,       \* the tasks of the phrase that have returned a record, in the order they finished
    \* ---- scholar_search.py, scholar_and_pubmed_search
    all_titles,      \* the listing titles collected so far, in listing order
    page,            \* the number of listing pages read
    xref,            \* the position of the fetch_pubmed_info task of each title
    pubmed_results,  \* what each finished fetch_pubmed_info task returned
    scholar_list,    \* results, the list scholar_and_pubmed_search returns
    gather_exception, \* the exception set on the future of gather, "none" if none
    done_callbacks   \* the exceptions of the failed tasks whose _done_callback has
                     \* not run yet, in the order the tasks failed

citeVars == <<llm_cites, llm_entries, llm_tail, review_text, bibliography, refined_text,
              citations, valid, refined>>

runVars == <<events, initial_review, final_review, error>>

selVars == <<df, scholar_results, topic, num_papers, content, sel>>

\* the variables the citation functions leave alone
fetchVars == <<phrases, phrase, attempt, sent, errors_seen, data, idlist, task, result,
               permits, all_articles, completed>>

scholarVars == <<all_titles, page, xref, pubmed_results, scholar_list, gather_exception,
                 done_callbacks>>

\* the variables the citation functions leave alone
notCite == <<runVars, selVars, fetchVars, scholarVars>>

vars == <<pc, citeVars, runVars, selVars, fetchVars, scholarVars>>

-----------------------------------------------------------------------------
(* Bounds of the model *)

\* largest citation number of the generated narratives
MaxNum == 3
\* largest number of comma-separated parts of a generated narrative
MaxParts == 2
\* largest number of entries of a generated bibliography
MaxBib == 2
\* largest target selection size (num_papers)
MaxTarget == 2
\* largest number of lines of a ranking reply
MaxLines == 2

-----------------------------------------------------------------------------
(* Python str operations *)

Range(f) == {f[i] : i \in DOMAIN f}

\* A character of a Python string is a one-character string when it is a
\* printable ASCII character other than the grave accent, or tab, line feed,
\* form feed or carriage return, and otherwise the string U+hhhh of its code
\* point in hexadecimal.
HexChars == <<"0", "1", "2", "3", "4", "5", "6", "7", "8", "9",
              "A", "B", "C", "D", "E", "F">>

RECURSIVE HexStr(_)
HexStr(n) == IF n < 16 THEN HexChars[n + 1]
             ELSE HexStr(n \div 16) \o HexChars[(n % 16) + 1]

\* the characters of the code points 0..127
AsciiChars == <<
    "U+0000", "U+0001", "U+0002", "U+0003", "U+0004", "U+0005", "U+0006", "U+0007", "U+0008",
    "\t", "\n", "U+000B", "\f", "\r", "U+000E", "U+000F", "U+0010", "U+0011", "U+0012",
    "U+0013", "U+0014", "U+0015", "U+0016", "U+0017", "U+0018", "U+0019", "U+001A", "U+001B",
    "U+001C", "U+001D", "U+001E", "U+001F", " ", "!", "\"", "#", "$", "%", "&", "'", "(", ")",
    "*", "+", ",", "-", ".", "/", "0", "1", "2", "3", "4", "5", "6", "7", "8", "9", ":", ";",
    "<", "=", ">", "?", "@", "A", "B", "C", "D", "E", "F", "G", "H", "I", "J", "K", "L", "M",
    "N", "O", "P", "Q", "R", "S", "T", "U", "V", "W", "X", "Y", "Z", "[", "\\", "]", "^", "_",
    "U+0060", "a", "b", "c", "d", "e", "f", "g", "h", "i", "j", "k", "l", "m", "n", "o", "p", "q",
    "r", "s", "t", "u", "v", "w", "x", "y", "z", "{", "|", "}", "~", "U+007F" >>

\* chr(n)
UChar(n) ==
    IF n < 128 THEN AsciiChars[n + 1]
    ELSE "U+" \o (IF n < 256 THEN "00" ELSE IF n < 4096 THEN "0" ELSE "") \o HexStr(n)

\* the characters of a list of ranges of code points
CharsOf(codes) == UNION {{UChar(n) : n \in r[1]..r[2]} : r \in Range(codes)}

\* the ASCII decimal digits, which str() writes
DigitChars == <<"0", "1", "2", "3", "4", "5", "6", "7", "8", "9">>

\* the code point of the digit zero of every script with decimal digits; the
\* digits one to nine of the script follow it
DecimalZeros == <<
    48, 1632, 1776, 1984, 2406, 2534, 2662, 2790, 2918, 3046, 3174, 3302, 3430, 3558, 3664,
    3792, 3872, 4160, 4240, 6112, 6160, 6470, 6608, 6784, 6800, 6992, 7088, 7232, 7248, 42528,
    43216, 43264, 43472, 43504, 43600, 44016, 65296, 66720, 68912, 69734, 69872, 69942, 70096,
    70384, 70736, 70864, 71248, 71360, 71472, 71904, 72016, 72784, 73040, 73120, 92768, 92864,
    93008, 120782, 120792, 120802, 120812, 120822, 123200, 123632, 125264, 130032 >>

\* the characters \d matches in a str pattern and int() reads: the decimal
\* digits of every script
DigitSet == {UChar(z + d) : z \in Range(DecimalZeros), d \in 0..9}

\* the code points str.isspace() is true of
WhitespaceCodes == <<
    <<9, 13>>, <<28, 32>>, <<133, 133>>, <<160, 160>>, <<5760, 5760>>, <<8192, 8202>>, <<8232,
    8233>>, <<8239, 8239>>, <<8287, 8287>>, <<12288, 12288>> >>

\* the characters str.strip() removes and \s matches
Whitespace == CharsOf(WhitespaceCodes)

\* the outcome of an operation that may raise
Ok(v) == [ok |-> TRUE, val |-> v]
Raised == [ok |-> FALSE, val |-> <<>>]

\* s without its leading and trailing characters of the set
StripOf(s, set) ==
    IF \A i \in 1..Len(s) : s[i] \in set THEN <<>>
    ELSE LET first == CHOOSE i \in 1..Len(s) :
                          s[i] \notin set /\ \A j \in 1..(i-1) : s[j] \in set
             last == CHOOSE i \in 1..Len(s) :
                          s[i] \notin set /\ \A j \in (i+1)..Len(s) : s[j] \in set
         IN SubSeq(s, first, last)

\* str.strip()
Strip(s) == StripOf(s, Whitespace)

\* the whitespace int() skips at both ends of its argument: the four
\* separators U+001C..U+001F are not part of it
IntWhitespace == Whitespace \ CharsOf(<< <<28, 31>> >>)

\* whether sub occurs in s at position p
OccursAt(s, sub, p) ==
    /\ p >= 1
    /\ p + Len(sub) - 1 <= Len(s)
    /\ \A k \in 1..Len(sub) : s[p + k - 1] = sub[k]

\* str.find(sub, from): the first position >= from where sub occurs, 0 if none
Find(s, sub, from) ==
    IF \E p \in from..Len(s) : OccursAt(s, sub, p)
    THEN CHOOSE p \in from..Len(s) :
             OccursAt(s, sub, p) /\ \A q \in from..(p-1) : ~OccursAt(s, sub, q)
    ELSE 0

\* sub in s
Contains(s, sub) == sub = <<>> \/ Find(s, sub, 1) # 0

\* str.split(sep) for a non-empty separator
RECURSIVE SplitOn(_, _)
SplitOn(s, sep) ==
    LET p == Find(s, sep, 1)
    IN IF p = 0 THEN <<s>>
       ELSE <<SubSeq(s, 1, p - 1)>> \o SplitOn(SubSeq(s, p + Len(sep), Len(s)), sep)

\* str.replace(sub, ''), sub non-empty
RECURSIVE Remove(_, _)
Remove(s, sub) ==
    LET p == Find(s, sub, 1)
    IN IF p = 0 THEN s
       ELSE SubSeq(s, 1, p - 1) \o Remove(SubSeq(s, p + Len(sub), Len(s)), sub)

\* sep.join(parts)
RECURSIVE Join(_, _)
Join(parts, sep) ==
    IF parts = <<>> THEN <<>>
    ELSE IF Len(parts) = 1 THEN parts[1]
    ELSE parts[1] \o sep \o Join(Tail(parts), sep)

\* the concatenation of a sequence of sequences
RECURSIVE Flatten(_)
Flatten(ss) == IF ss = <<>> THEN <<>> ELSE ss[1] \o Flatten(Tail(ss))

\* the value of every decimal digit
DigitValues ==
    [c \in DigitSet |->
        CHOOSE d \in 0..9 : \E z \in Range(DecimalZeros) : UChar(z + d) = c]

DigitVal(c) == DigitValues[c]

RECURSIVE DecVal(_)
DecVal(ds) ==
    IF ds = <<>> THEN 0
    ELSE 10 * DecVal(SubSeq(ds, 1, Len(ds) - 1)) + DigitVal(ds[Len(ds)])

\* a run of digits without its leading zeros, which do not change its value
Significant(ds) ==
    IF \A i \in 1..Len(ds) : DigitVal(ds[i]) = 0 THEN <<>>
    ELSE SubSeq(ds, CHOOSE i \in 1..Len(ds) :
                        DigitVal(ds[i]) # 0 /\ \A j \in 1..(i-1) : DigitVal(ds[j]) = 0,
                Len(ds))

\* sys.int_info.default_max_str_digits of Python 3.11: the most digits int()
\* converts, leading zeros counted
MaxStrDigits == 4300

\* int(s) for a string of digits and whitespace: ValueError unless the
\* stripped string is a non-empty run of at most MaxStrDigits digits
IntOf(s) ==
    LET t == StripOf(s, IntWhitespace)
    IN IF t = <<>> \/ \E i \in 1..Len(t) : t[i] \notin DigitSet
       THEN Raised
       ELSE IF Len(t) > MaxStrDigits THEN Raised
       ELSE Ok(DecVal(Significant(t)))

\* str(n) for n >= 0
RECURSIVE Str(_)
Str(n) ==
    IF n < 10 THEN <<DigitChars[n + 1]>>
    ELSE Str(n \div 10) \o <<DigitChars[(n % 10) + 1]>>

\* list(range(start, stop))
RangeList(start, stop) ==
    IF stop <= start THEN <<>> ELSE [i \in 1..(stop - start) |-> start + i - 1]

-----------------------------------------------------------------------------
(* RefiningAgent.extract_citations *)

\* the characters of the class [\d\s,\-]
CiteClass == DigitSet \cup Whitespace \cup {",", "-"}

\* the end of the longest run of class characters starting at j
RunEnd(text, j) ==
    CHOOSE k \in j..(Len(text) + 1) :
        /\ \A m \in j..(k-1) : text[m] \in CiteClass
        /\ k = Len(text) + 1 \/ text[k] \notin CiteClass

\* group(1) of every match of \[([\d\s,\-]+)\] from position i on, in order
RECURSIVE FindGroups(_, _)
FindGroups(text, i) ==
    IF i > Len(text) THEN <<>>
    ELSE IF text[i] # "[" THEN FindGroups(text, i + 1)
    ELSE LET e == RunEnd(text, i + 1)
         IN IF e > i + 1 /\ e <= Len(text) /\ text[e] = "]"
            THEN <<SubSeq(text, i + 1, e - 1)>> \o FindGroups(text, e + 1)
            ELSE FindGroups(text, i + 1)

\* a mutant of PartCitations: the range loses its upper end
PartCitationsExclusive(part) ==
    LET p == Strip(part)
    IN IF "-" \in Range(p)
       THEN LET pieces == SplitOn(p, <<"-">>)
            IN IF Len(pieces) # 2 THEN Raised
               ELSE LET start == IntOf(pieces[1])
                        end == IntOf(pieces[2])
                    IN IF start.ok /\ end.ok
                       THEN Ok(RangeList(start.val, end.val))
                       ELSE Raised
       ELSE LET n == IntOf(p)
            IN IF n.ok THEN Ok(<<n.val>>) ELSE Raised

\* the numbers one comma-separated part contributes
PartCitations(part) ==
    LET p == Strip(part)
    IN IF "-" \in Range(p)
       THEN LET pieces == SplitOn(p, <<"-">>)
            IN IF Len(pieces) # 2 THEN Raised
               ELSE LET start == IntOf(pieces[1])
                        end == IntOf(pieces[2])
                    IN IF start.ok /\ end.ok
                       THEN Ok(RangeList(start.val, end.val + 1))
                       ELSE Raised
       ELSE LET n == IntOf(p)
            IN IF n.ok THEN Ok(<<n.val>>) ELSE Raised

\* the numbers of one bracket group
GroupCitations(group) ==
    LET parts == SplitOn(group, <<",">>)
        each == [k \in 1..Len(parts) |-> PartCitations(parts[k])]
    IN IF \E k \in 1..Len(parts) : ~each[k].ok THEN Raised
       ELSE Ok(Flatten([k \in 1..Len(parts) |-> each[k].val]))

extract_citations(text) ==
    LET groups == FindGroups(text, 1)
        each == [g \in 1..Len(groups) |-> GroupCitations(groups[g])]
    IN IF \E g \in 1..Len(groups) : ~each[g].ok THEN Raised
       ELSE Ok(Flatten([g \in 1..Len(groups) |-> each[g].val]))

-----------------------------------------------------------------------------
(* RefiningAgent.verify_citations *)

\* the lines of the bibliography that are not blank
BibEntries(bib) ==
    SelectSeq(SplitOn(Strip(bib), <<"\n">>), LAMBDA entry : Strip(entry) # <<>>)

\* a mutant of verify_citations: the last entry cannot be cited
verify_citations_strict(text, bib) ==
    LET cs == extract_citations(text)
        max_citation == Len(BibEntries(bib))
    IN IF ~cs.ok THEN Raised
       ELSE Ok(\A k \in 1..Len(cs.val) : 1 <= cs.val[k] /\ cs.val[k] < max_citation)

verify_citations(text, bib) ==
    LET cs == extract_citations(text)
        max_citation == Len(BibEntries(bib))
    IN IF ~cs.ok THEN Raised
       ELSE Ok(\A k \in 1..Len(cs.val) : 1 <= cs.val[k] /\ cs.val[k] <= max_citation)

-----------------------------------------------------------------------------
(* The References pattern shared by refine_review and run *)

REFERENCES == <<"R", "e", "f", "e", "r", "e", "n", "c", "e", "s">>

\* the end of the run of dashes starting at j
DashEnd(text, j) ==
    CHOOSE k \in j..(Len(text) + 1) :
        /\ \A m \in j..(k-1) : text[m] = "-"
        /\ k = Len(text) + 1 \/ text[k] # "-"

\* a mutant of HeaderAt: the line of dashes is not asked for
HeaderAtAnyLine(text, p) == OccursAt(text, REFERENCES \o <<"\n">>, p)

\* whether References\n-+\n matches at position p
HeaderAt(text, p) ==
    /\ OccursAt(text, REFERENCES \o <<"\n">>, p)
    /\ LET d == p + Len(REFERENCES) + 1
           e == DashEnd(text, d)
       IN e > d /\ e <= Len(text) /\ text[e] = "\n"

\* re.search(r'References\n-+\n(.*?)$', text, re.DOTALL): the leftmost header;
\* group(1) runs lazily to the first place where $ matches, the end of the
\* text or the line break that ends it
ReferencesSearch(text) ==
    IF \E p \in 1..Len(text) : HeaderAt(text, p)
    THEN LET p == CHOOSE q \in 1..Len(text) :
                      HeaderAt(text, q) /\ \A r \in 1..(q-1) : ~HeaderAt(text, r)
             from == DashEnd(text, p + Len(REFERENCES) + 1) + 1
             to == IF from <= Len(text) /\ text[Len(text)] = "\n"
                   THEN Len(text) - 1 ELSE Len(text)
         IN [found |-> TRUE,
             group0 |-> SubSeq(text, p, to),
             group1 |-> SubSeq(text, from, to)]
    ELSE [found |-> FALSE, group0 |-> <<>>, group1 |-> <<>>]

-----------------------------------------------------------------------------
(* RefiningAgent.refine_review *)

\* sorted(set(xs))
RECURSIVE SortedSet(_)
SortedSet(S) ==
    IF S = {} THEN <<>>
    ELSE LET m == CHOOSE x \in S : \A y \in S : x <= y
         IN <<m>> \o SortedSet(S \ {m})

\* ",".join(map(str, xs))
JoinNumbers(xs) == Join([k \in 1..Len(xs) |-> Str(xs[k])], <<",">>)

\* the returned tuple for the reply of the model call, or the ValueError of
\* extract_citations
refine_review(reply, bib) ==
    LET text == Strip(reply)
        references_match == ReferencesSearch(text)
        new_bibliography == IF references_match.found
                            THEN Strip(references_match.group1) ELSE bib
        narrative == IF references_match.found
                     THEN Strip(Remove(text, references_match.group0)) ELSE text
        final_citations == extract_citations(narrative)
    IN IF ~final_citations.ok THEN Raised
       ELSE Ok(<<narrative, new_bibliography,
                 JoinNumbers(SortedSet(Range(final_citations.val)))>>)

-----------------------------------------------------------------------------
(* The texts given to the citation functions.  A narrative is written from  *)
(* a plan: the parts to cite, each a number <<n>> or a range <<a, b>>, and   *)
(* for each part whether it opens a new bracket group.                       *)

PlanParts == {<<n>> : n \in 1..MaxNum}
             \cup {ab \in (1..MaxNum) \X (1..MaxNum) : ab[1] < ab[2]}

PlanItems == [part : PlanParts, opens : BOOLEAN]

Plans == UNION {{p \in [1..k -> PlanItems] : k = 0 \/ p[1].opens} : k \in 0..MaxParts}

\* the numbers a part stands for: n, or every integer from a to b
PartMeaning(part) ==
    IF Len(part) = 1 THEN part
    ELSE [i \in 1..(part[2] - part[1] + 1) |-> part[1] + i - 1]

PlanMeaning(plan) == Flatten([k \in 1..Len(plan) |-> PartMeaning(plan[k].part)])

PartText(part) ==
    IF Len(part) = 1 THEN Str(part[1]) ELSE Str(part[1]) \o <<"-">> \o Str(part[2])

\* the narrative written from a plan: "s[1, 2-3].[2]."; inside a group the
\* separators alternate between ", " and ","
RECURSIVE PlanTextFrom(_, _)
PlanTextFrom(plan, k) ==
    IF k > Len(plan) THEN (IF Len(plan) = 0 THEN <<>> ELSE <<"]", ".">>)
    ELSE (IF plan[k].opens
          THEN (IF k = 1 THEN <<"[">> ELSE <<"]", ".", " ", "[">>)
          ELSE (IF k % 2 = 0 THEN <<",", " ">> ELSE <<",">>))
         \o PartText(plan[k].part) \o PlanTextFrom(plan, k + 1)

PlanText(plan) == <<"s">> \o PlanTextFrom(plan, 1)

\* a bibliography of n numbered entries, with a blank line after the first
\* entry and a trailing line break
BibText(n) ==
    Flatten([i \in 1..n |->
        <<"[">> \o Str(i) \o <<"]", " ", "A", "\n">>
        \o (IF i = 1 /\ n > 1 THEN <<" ", "\n">> ELSE <<>>)])

\* the examples of the specification and the border cases
Example_1_3to5_7 == <<"[", "1", ",", " ", "3", "-", "5", ",", " ", "7", "]">>
Example_1to5 == <<"[", "1", "-", "5", "]">>
Example_1to6 == <<"[", "1", "-", "6", "]">>
Example_3_then_1 == <<"x", " ", "[", "3", "]", " ", "y", " ", "[", "1", "]">>

CiteExamples ==
    { [text |-> Example_1_3to5_7, cites |-> <<1, 3, 4, 5, 7>>, entries |-> 7],
      [text |-> Example_1to5, cites |-> <<1, 2, 3, 4, 5>>, entries |-> 5],
      [text |-> Example_1to6, cites |-> <<1, 2, 3, 4, 5, 6>>, entries |-> 5],
      [text |-> Example_3_then_1, cites |-> <<3, 1>>, entries |-> 3],
      [text |-> <<"[", "0", "]">>, cites |-> <<0>>, entries |-> 1],
      [text |-> <<"[", "3", "-", "2", "]", "[", " ", "1", "2", " ", "]">>,
       cites |-> <<12>>, entries |-> 12],
      [text |-> <<"[", "a", "]", "[", "[", "2", " ", "-", "\n", "3", "]", "]">>,
       cites |-> <<2, 3>>, entries |-> 2] }

CiteInputs ==
    {[text |-> PlanText(p), cites |-> PlanMeaning(p), entries |-> n] :
        p \in Plans, n \in 0..MaxBib}
    \cup CiteExamples

NoOutcome == [ok |-> FALSE, val |-> <<"not run">>]

\* select_papers has not been called
NoFrames == [combined_df |-> <<>>, exact_match_df |-> <<>>, other_papers_df |-> <<>>,
             remaining_papers |-> 0, ranked |-> FALSE, assignments |-> <<>>,
             selected_other_papers |-> <<>>, final_df |-> <<>>]

SelectIdle ==
    /\ df = <<>>
    /\ scholar_results = <<>>
    /\ topic = <<>>
    /\ num_papers = 0
    /\ content = <<>>
    /\ sel = NoFrames

\* no search response has been read
NoData == [error |-> FALSE, esearchresult |-> "unread", idlist |-> <<>>]

\* search_pubmed has not been called
FetchIdle ==
    /\ phrases = <<>>
    /\ phrase = 0
    /\ attempt = 0
    /\ sent = 0
    /\ errors_seen = 0
    /\ data = NoData
    /\ idlist = <<>>
    /\ task = <<>>
    /\ result = <<>>
    /\ permits = 0
    /\ all_articles = <<>>
    /\ completed = <<>>

\* scholar_and_pubmed_search has not been called
ScholarIdle ==
    /\ all_titles = <<>>
    /\ page = 0
    /\ xref = <<>>
    /\ pubmed_results = <<>>
    /\ scholar_list = <<>>
    /\ gather_exception = "none"
    /\ done_callbacks = <<>>

\* run has not been called
RunIdle ==
    /\ events = <<>>
    /\ initial_review = <<>>
    /\ final_review = <<>>
    /\ error = "none"

-----------------------------------------------------------------------------
(* SpecCite: extract_citations and verify_citations applied to a text *)

InitCite ==
    /\ pc = "start"
    /\ \E c \in CiteInputs :
          /\ review_text = c.text
          /\ llm_cites = c.cites
          /\ llm_entries = c.entries
          /\ bibliography = BibText(c.entries)
    /\ llm_tail = "none"
    /\ refined_text = <<>>
    /\ citations = NoOutcome
    /\ valid = NoOutcome
    /\ refined = NoOutcome
    /\ RunIdle
    /\ SelectIdle
    /\ FetchIdle
    /\ ScholarIdle

ExtractCitations ==
    /\ pc = "start"
    /\ citations' = extract_citations(review_text)
    /\ pc' = "extracted"
    /\ UNCHANGED <<llm_cites, llm_entries, llm_tail, review_text, bibliography, refined_text,
                   valid, refined>>
    /\ UNCHANGED notCite

VerifyCitations ==
    /\ pc = "start"
    /\ valid' = verify_citations(review_text, bibliography)
    /\ pc' = "verified"
    /\ UNCHANGED <<llm_cites, llm_entries, llm_tail, review_text, bibliography, refined_text,
                   citations, refined>>
    /\ UNCHANGED notCite

NextCite == ExtractCitations \/ VerifyCitations

SpecCite == InitCite /\ [][NextCite]_vars

\* C8: extract_citations returns, in text order and keeping repetitions, the
\* numbers of every bracket group: a part a-b gives every integer from a to b,
\* any other part its single integer; "[1, 3-5, 7]" gives 1,3,4,5,7.
C8_ExtractExpandsGroups ==
    pc = "extracted" =>
        /\ citations = Ok(llm_cites)
        /\ (review_text = Example_1_3to5_7 => citations.val = <<1, 3, 4, 5, 7>>)

\* C8 witness: the text holds a range inside a mixed group and the same
\* number in two groups, and extraction has returned them all.
C8_Witness ==
    /\ pc = "extracted"
    /\ citations.ok
    /\ Len(FindGroups(review_text, 1)) = 2
    /\ \E i, j \in 1..Len(citations.val) : i < j /\ citations.val[i] = citations.val[j]
    /\ Len(citations.val) > 2

\* C9: verify_citations is true exactly when every citation of the narrative
\* lies in 1..entryCount (5 entries: [1-5] true, [1-6] false), and leaves the
\* narrative and the bibliography as they were.
C9_VerifyIffInRange ==
    pc = "verified" =>
        /\ valid = Ok(\A k \in 1..Len(llm_cites) :
                         1 <= llm_cites[k] /\ llm_cites[k] <= llm_entries)
        /\ (review_text = Example_1to5 => valid.val)
        /\ (review_text = Example_1to6 => ~valid.val)
        /\ bibliography = BibText(llm_entries)
        /\ extract_citations(review_text) = Ok(llm_cites)

\* C9 witness: a narrative citing [1-6] was checked against 5 entries and
\* found invalid.
C9_Witness ==
    /\ pc = "verified"
    /\ review_text = Example_1to6
    /\ Len(BibEntries(bibliography)) = 5
    /\ valid = Ok(FALSE)

-----------------------------------------------------------------------------
(* SpecRefine: refine_review applied to a reply of the model call *)

\* the reference list the writer appends to the narrative
TailText(kind, n) ==
    IF kind = "dashed"
    THEN <<"\n", "\n">> \o REFERENCES \o <<"\n", "-", "-", "\n">> \o BibText(n)
    ELSE IF kind = "plain"
    THEN <<"\n", "\n">> \o REFERENCES \o <<"\n">> \o BibText(n)
    ELSE <<>>

ReplyText(narrative, kind, n) == <<" ">> \o narrative \o TailText(kind, n) \o <<"\n">>

Tails == {[kind |-> "none", n |-> 0], [kind |-> "plain", n |-> 1]}
         \cup {[kind |-> "dashed", n |-> n] : n \in 0..MaxBib}

\* the author-date narrative and bibliographies handed to refine_review
AuthorDateReview == <<"s", " ", "(", "A", ",", " ", "2", "0", ")", ".">>
AuthorDateBibs ==
    { <<>>, <<"A", " ", "(", "2", "0", ")", ".", "\n", "B", " ", "(", "1", "9", ")", ".">> }

RefineInputs ==
    {[text |-> PlanText(p), cites |-> PlanMeaning(p)] : p \in Plans}
    \cup {[text |-> c.text, cites |-> c.cites] : c \in CiteExamples}

InitRefine ==
    /\ pc = "call"
    /\ review_text = AuthorDateReview
    /\ bibliography \in AuthorDateBibs
    /\ \E c \in RefineInputs, t \in Tails :
          /\ llm_cites = c.cites
          /\ llm_entries = t.n
          /\ llm_tail = t.kind
          /\ refined_text = ReplyText(c.text, t.kind, t.n)
    /\ citations = NoOutcome
    /\ valid = NoOutcome
    /\ refined = NoOutcome
    /\ RunIdle
    /\ SelectIdle
    /\ FetchIdle
    /\ ScholarIdle

\* refine_review from the reply of the model call to its return
RefineReview ==
    /\ pc = "call"
    /\ refined' = refine_review(refined_text, bibliography)
    /\ pc' = "refined"
    /\ UNCHANGED <<llm_cites, llm_entries, llm_tail, review_text, bibliography,
                   refined_text, citations, valid>>
    /\ UNCHANGED notCite

NextRefine == RefineReview

SpecRefine == InitRefine /\ [][NextRefine]_vars

\* the distinct elements of xs in order of first appearance
RECURSIVE FirstOf(_, _)
FirstOf(seen, xs) ==
    IF xs = <<>> THEN seen
    ELSE IF xs[1] \in Range(seen) THEN FirstOf(seen, Tail(xs))
         ELSE FirstOf(Append(seen, xs[1]), Tail(xs))

FirstAppearances(xs) == FirstOf(<<>>, xs)

\* C3: after reconciliation every numeric citation marker of the returned
\* narrative lies in 1..n, n the number of entries of the returned
\* bibliography, for every text the model may return.
C3_MarkersWithinBibliography ==
    (pc = "refined" /\ refined.ok) =>
        LET markers == extract_citations(refined.val[1]).val
            n == Len(BibEntries(refined.val[2]))
        IN \A k \in 1..Len(markers) : 1 <= markers[k] /\ markers[k] <= n

\* C10: the third component returned by refine_review lists the distinct
\* citation numbers of the revised narrative in order of first appearance
\* (citing [3] and then [1] yields 3 before 1).
C10_OrderOfFirstAppearance ==
    (pc = "refined" /\ refined.ok) =>
        refined.val[3] =
            JoinNumbers(FirstAppearances(extract_citations(refined.val[1]).val))

\* C18: after reconciliation every entry of the returned bibliography is
\* cited by at least one numeric marker of the returned narrative (no orphan
\* entries), also when the reply has no recognizable References section and
\* the bibliography is the one passed in.
C18_NoOrphanEntries ==
    (pc = "refined" /\ refined.ok) =>
        LET markers == Range(extract_citations(refined.val[1]).val)
            n == Len(BibEntries(refined.val[2]))
        IN \A entry \in 1..n : entry \in markers

\* C29: when the text returned by the reconciliation model call holds no
\* "References" header followed by a line of dashes, refine_review returns
\* the bibliography it was given unchanged and the entire model text, still
\* with any differently set reference list, as the narrative; it never
\* calls the model again and never repairs the text.
C29_NoHeaderKeepsBibliography ==
    /\ []((pc = "refined" /\ refined.ok /\ llm_tail # "dashed") =>
            /\ refined.val[2] = bibliography
            /\ refined.val[1] = Strip(refined_text)
            /\ Contains(refined.val[1], Strip(TailText(llm_tail, llm_entries))))
    /\ [][refined_text' = refined_text /\ bibliography' = bibliography]_vars
    /\ [][pc = "refined" => UNCHANGED vars]_vars

\* the reply ends in a reference list under a bare "References" line: the
\* list is still in the returned narrative and the bibliography is the one
\* passed in
C29_Witness ==
    /\ pc = "refined"
    /\ refined.ok
    /\ llm_tail = "plain"
    /\ bibliography # <<>>
    /\ refined.val[2] = bibliography
    /\ Contains(refined.val[1], REFERENCES \o <<"\n", "[", "1", "]", " ", "A">>)

-----------------------------------------------------------------------------
(* PaperSelectionAgent.select_papers *)

\* the code point of every character str.lower() changes and that of its
\* image, but for the two characters whose image is not one fixed character
CaseCodes == <<
    <<65, 97>>, <<66, 98>>, <<67, 99>>, <<68, 100>>, <<69, 101>>, <<70, 102>>, <<71, 103>>,
    <<72, 104>>, <<73, 105>>, <<74, 106>>, <<75, 107>>, <<76, 108>>, <<77, 109>>, <<78, 110>>,
    <<79, 111>>, <<80, 112>>, <<81, 113>>, <<82, 114>>, <<83, 115>>, <<84, 116>>, <<85, 117>>,
    <<86, 118>>, <<87, 119>>, <<88, 120>>, <<89, 121>>, <<90, 122>>, <<192, 224>>, <<193, 225>>,
    <<194, 226>>, <<195, 227>>, <<196, 228>>, <<197, 229>>, <<198, 230>>, <<199, 231>>, <<200,
    232>>, <<201, 233>>, <<202, 234>>, <<203, 235>>, <<204, 236>>, <<205, 237>>, <<206, 238>>,
    <<207, 239>>, <<208, 240>>, <<209, 241>>, <<210, 242>>, <<211, 243>>, <<212, 244>>, <<213,
    245>>, <<214, 246>>, <<216, 248>>, <<217, 249>>, <<218, 250>>, <<219, 251>>, <<220, 252>>,
    <<221, 253>>, <<222, 254>>, <<256, 257>>, <<258, 259>>, <<260, 261>>, <<262, 263>>, <<264,
    265>>, <<266, 267>>, <<268, 269>>, <<270, 271>>, <<272, 273>>, <<274, 275>>, <<276, 277>>,
    <<278, 279>>, <<280, 281>>, <<282, 283>>, <<284, 285>>, <<286, 287>>, <<288, 289>>, <<290,
    291>>, <<292, 293>>, <<294, 295>>, <<296, 297>>, <<298, 299>>, <<300, 301>>, <<302, 303>>,
    <<306, 307>>, <<308, 309>>, <<310, 311>>, <<313, 314>>, <<315, 316>>, <<317, 318>>, <<319,
    320>>, <<321, 322>>, <<323, 324>>, <<325, 326>>, <<327, 328>>, <<330, 331>>, <<332, 333>>,
    <<334, 335>>, <<336, 337>>, <<338, 339>>, <<340, 341>>, <<342, 343>>, <<344, 345>>, <<346,
    347>>, <<348, 349>>, <<350, 351>>, <<352, 353>>, <<354, 355>>, <<356, 357>>, <<358, 359>>,
    <<360, 361>>, <<362, 363>>, <<364, 365>>, <<366, 367>>, <<368, 369>>, <<370, 371>>, <<372,
    373>>, <<374, 375>>, <<376, 255>>, <<377, 378>>, <<379, 380>>, <<381, 382>>, <<385, 595>>,
    <<386, 387>>, <<388, 389>>, <<390, 596>>, <<391, 392>>, <<393, 598>>, <<394, 599>>, <<395,
    396>>, <<398, 477>>, <<399, 601>>, <<400, 603>>, <<401, 402>>, <<403, 608>>, <<404, 611>>,
    <<406, 617>>, <<407, 616>>, <<408, 409>>, <<412, 623>>, <<413, 626>>, <<415, 629>>, <<416,
    417>>, <<418, 419>>, <<420, 421>>, <<422, 640>>, <<423, 424>>, <<425, 643>>, <<428, 429>>,
    <<430, 648>>, <<431, 432>>, <<433, 650>>, <<434, 651>>, <<435, 436>>, <<437, 438>>, <<439,
    658>>, <<440, 441>>, <<444, 445>>, <<452, 454>>, <<453, 454>>, <<455, 457>>, <<456, 457>>,
    <<458, 460>>, <<459, 460>>, <<461, 462>>, <<463, 464>>, <<465, 466>>, <<467, 468>>, <<469,
    470>>, <<471, 472>>, <<473, 474>>, <<475, 476>>, <<478, 479>>, <<480, 481>>, <<482, 483>>,
    <<484, 485>>, <<486, 487>>, <<488, 489>>, <<490, 491>>, <<492, 493>>, <<494, 495>>, <<497,
    499>>, <<498, 499>>, <<500, 501>>, <<502, 405>>, <<503, 447>>, <<504, 505>>, <<506, 507>>,
    <<508, 509>>, <<510, 511>>, <<512, 513>>, <<514, 515>>, <<516, 517>>, <<518, 519>>, <<520,
    521>>, <<522, 523>>, <<524, 525>>, <<526, 527>>, <<528, 529>>, <<530, 531>>, <<532, 533>>,
    <<534, 535>>, <<536, 537>>, <<538, 539>>, <<540, 541>>, <<542, 543>>, <<544, 414>>, <<546,
    547>>, <<548, 549>>, <<550, 551>>, <<552, 553>>, <<554, 555>>, <<556, 557>>, <<558, 559>>,
    <<560, 561>>, <<562, 563>>, <<570, 11365>>, <<571, 572>>, <<573, 410>>, <<574, 11366>>,
    <<577, 578>>, <<579, 384>>, <<580, 649>>, <<581, 652>>, <<582, 583>>, <<584, 585>>, <<586,
    587>>, <<588, 589>>, <<590, 591>>, <<880, 881>>, <<882, 883>>, <<886, 887>>, <<895, 1011>>,
    <<902, 940>>, <<904, 941>>, <<905, 942>>, <<906, 943>>, <<908, 972>>, <<910, 973>>, <<911,
    974>>, <<913, 945>>, <<914, 946>>, <<915, 947>>, <<916, 948>>, <<917, 949>>, <<918, 950>>,
    <<919, 951>>, <<920, 952>>, <<921, 953>>, <<922, 954>>, <<923, 955>>, <<924, 956>>, <<925,
    957>>, <<926, 958>>, <<927, 959>>, <<928, 960>>, <<929, 961>>, <<932, 964>>, <<933, 965>>,
    <<934, 966>>, <<935, 967>>, <<936, 968>>, <<937, 969>>, <<938, 970>>, <<939, 971>>, <<975,
    983>>, <<984, 985>>, <<986, 987>>, <<988, 989>>, <<990, 991>>, <<992, 993>>, <<994, 995>>,
    <<996, 997>>, <<998, 999>>, <<1000, 1001>>, <<1002, 1003>>, <<1004, 1005>>, <<1006, 1007>>,
    <<1012, 952>>, <<1015, 1016>>, <<1017, 1010>>, <<1018, 1019>>, <<1021, 891>>, <<1022, 892>>,
    <<1023, 893>>, <<1024, 1104>>, <<1025, 1105>>, <<1026, 1106>>, <<1027, 1107>>, <<1028,
    1108>>, <<1029, 1109>>, <<1030, 1110>>, <<1031, 1111>>, <<1032, 1112>>, <<1033, 1113>>,
    <<1034, 1114>>, <<1035, 1115>>, <<1036, 1116>>, <<1037, 1117>>, <<1038, 1118>>, <<1039,
    1119>>, <<1040, 1072>>, <<1041, 1073>>, <<1042, 1074>>, <<1043, 1075>>, <<1044, 1076>>,
    <<1045, 1077>>, <<1046, 1078>>, <<1047, 1079>>, <<1048, 1080>>, <<1049, 1081>>, <<1050,
    1082>>, <<1051, 1083>>, <<1052, 1084>>, <<1053, 1085>>, <<1054, 1086>>, <<1055, 1087>>,
    <<1056, 1088>>, <<1057, 1089>>, <<1058, 1090>>, <<1059, 1091>>, <<1060, 1092>>, <<1061,
    1093>>, <<1062, 1094>>, <<1063, 1095>>, <<1064, 1096>>, <<1065, 1097>>, <<1066, 1098>>,
    <<1067, 1099>>, <<1068, 1100>>, <<1069, 1101>>, <<1070, 1102>>, <<1071, 1103>>, <<1120,
    1121>>, <<1122, 1123>>, <<1124, 1125>>, <<1126, 1127>>, <<1128, 1129>>, <<1130, 1131>>,
    <<1132, 1133>>, <<1134, 1135>>, <<1136, 1137>>, <<1138, 1139>>, <<1140, 1141>>, <<1142,
    1143>>, <<1144, 1145>>, <<1146, 1147>>, <<1148, 1149>>, <<1150, 1151>>, <<1152, 1153>>,
    <<1162, 1163>>, <<1164, 1165>>, <<1166, 1167>>, <<1168, 1169>>, <<1170, 1171>>, <<1172,
    1173>>, <<1174, 1175>>, <<1176, 1177>>, <<1178, 1179>>, <<1180, 1181>>, <<1182, 1183>>,
    <<1184, 1185>>, <<1186, 1187>>, <<1188, 1189>>, <<1190, 1191>>, <<1192, 1193>>, <<1194,
    1195>>, <<1196, 1197>>, <<1198, 1199>>, <<1200, 1201>>, <<1202, 1203>>, <<1204, 1205>>,
    <<1206, 1207>>, <<1208, 1209>>, <<1210, 1211>>, <<1212, 1213>>, <<1214, 1215>>, <<1216,
    1231>>, <<1217, 1218>>, <<1219, 1220>>, <<1221, 1222>>, <<1223, 1224>>, <<1225, 1226>>,
    <<1227, 1228>>, <<1229, 1230>>, <<1232, 1233>>, <<1234, 1235>>, <<1236, 1237>>, <<1238,
    1239>>, <<1240, 1241>>, <<1242, 1243>>, <<1244, 1245>>, <<1246, 1247>>, <<1248, 1249>>,
    <<1250, 1251>>, <<1252, 1253>>, <<1254, 1255>>, <<1256, 1257>>, <<1258, 1259>>, <<1260,
    1261>>, <<1262, 1263>>, <<1264, 1265>>, <<1266, 1267>>, <<1268, 1269>>, <<1270, 1271>>,
    <<1272, 1273>>, <<1274, 1275>>, <<1276, 1277>>, <<1278, 1279>>, <<1280, 1281>>, <<1282,
    1283>>, <<1284, 1285>>, <<1286, 1287>>, <<1288, 1289>>, <<1290, 1291>>, <<1292, 1293>>,
    <<1294, 1295>>, <<1296, 1297>>, <<1298, 1299>>, <<1300, 1301>>, <<1302, 1303>>, <<1304,
    1305>>, <<1306, 1307>>, <<1308, 1309>>, <<1310, 1311>>, <<1312, 1313>>, <<1314, 1315>>,
    <<1316, 1317>>, <<1318, 1319>>, <<1320, 1321>>, <<1322, 1323>>, <<1324, 1325>>, <<1326,
    1327>>, <<1329, 1377>>, <<1330, 1378>>, <<1331, 1379>>, <<1332, 1380>>, <<1333, 1381>>,
    <<1334, 1382>>, <<1335, 1383>>, <<1336, 1384>>, <<1337, 1385>>, <<1338, 1386>>, <<1339,
    1387>>, <<1340, 1388>>, <<1341, 1389>>, <<1342, 1390>>, <<1343, 1391>>, <<1344, 1392>>,
    <<1345, 1393>>, <<1346, 1394>>, <<1347, 1395>>, <<1348, 1396>>, <<1349, 1397>>, <<1350,
    1398>>, <<1351, 1399>>, <<1352, 1400>>, <<1353, 1401>>, <<1354, 1402>>, <<1355, 1403>>,
    <<1356, 1404>>, <<1357, 1405>>, <<1358, 1406>>, <<1359, 1407>>, <<1360, 1408>>, <<1361,
    1409>>, <<1362, 1410>>, <<1363, 1411>>, <<1364, 1412>>, <<1365, 1413>>, <<1366, 1414>>,
    <<4256, 11520>>, <<4257, 11521>>, <<4258, 11522>>, <<4259, 11523>>, <<4260, 11524>>, <<4261,
    11525>>, <<4262, 11526>>, <<4263, 11527>>, <<4264, 11528>>, <<4265, 11529>>, <<4266,
    11530>>, <<4267, 11531>>, <<4268, 11532>>, <<4269, 11533>>, <<4270, 11534>>, <<4271,
    11535>>, <<4272, 11536>>, <<4273, 11537>>, <<4274, 11538>>, <<4275, 11539>>, <<4276,
    11540>>, <<4277, 11541>>, <<4278, 11542>>, <<4279, 11543>>, <<4280, 11544>>, <<4281,
    11545>>, <<4282, 11546>>, <<4283, 11547>>, <<4284, 11548>>, <<4285, 11549>>, <<4286,
    11550>>, <<4287, 11551>>, <<4288, 11552>>, <<4289, 11553>>, <<4290, 11554>>, <<4291,
    11555>>, <<4292, 11556>>, <<4293, 11557>>, <<4295, 11559>>, <<4301, 11565>>, <<5024,
    43888>>, <<5025, 43889>>, <<5026, 43890>>, <<5027, 43891>>, <<5028, 43892>>, <<5029,
    43893>>, <<5030, 43894>>, <<5031, 43895>>, <<5032, 43896>>, <<5033, 43897>>, <<5034,
    43898>>, <<5035, 43899>>, <<5036, 43900>>, <<5037, 43901>>, <<5038, 43902>>, <<5039,
    43903>>, <<5040, 43904>>, <<5041, 43905>>, <<5042, 43906>>, <<5043, 43907>>, <<5044,
    43908>>, <<5045, 43909>>, <<5046, 43910>>, <<5047, 43911>>, <<5048, 43912>>, <<5049,
    43913>>, <<5050, 43914>>, <<5051, 43915>>, <<5052, 43916>>, <<5053, 43917>>, <<5054,
    43918>>, <<5055, 43919>>, <<5056, 43920>>, <<5057, 43921>>, <<5058, 43922>>, <<5059,
    43923>>, <<5060, 43924>>, <<5061, 43925>>, <<5062, 43926>>, <<5063, 43927>>, <<5064,
    43928>>, <<5065, 43929>>, <<5066, 43930>>, <<5067, 43931>>, <<5068, 43932>>, <<5069,
    43933>>, <<5070, 43934>>, <<5071, 43935>>, <<5072, 43936>>, <<5073, 43937>>, <<5074,
    43938>>, <<5075, 43939>>, <<5076, 43940>>, <<5077, 43941>>, <<5078, 43942>>, <<5079,
    43943>>, <<5080, 43944>>, <<5081, 43945>>, <<5082, 43946>>, <<5083, 43947>>, <<5084,
    43948>>, <<5085, 43949>>, <<5086, 43950>>, <<5087, 43951>>, <<5088, 43952>>, <<5089,
    43953>>, <<5090, 43954>>, <<5091, 43955>>, <<5092, 43956>>, <<5093, 43957>>, <<5094,
    43958>>, <<5095, 43959>>, <<5096, 43960>>, <<5097, 43961>>, <<5098, 43962>>, <<5099,
    43963>>, <<5100, 43964>>, <<5101, 43965>>, <<5102, 43966>>, <<5103, 43967>>, <<5104, 5112>>,
    <<5105, 5113>>, <<5106, 5114>>, <<5107, 5115>>, <<5108, 5116>>, <<5109, 5117>>, <<7312,
    4304>>, <<7313, 4305>>, <<7314, 4306>>, <<7315, 4307>>, <<7316, 4308>>, <<7317, 4309>>,
    <<7318, 4310>>, <<7319, 4311>>, <<7320, 4312>>, <<7321, 4313>>, <<7322, 4314>>, <<7323,
    4315>>, <<7324, 4316>>, <<7325, 4317>>, <<7326, 4318>>, <<7327, 4319>>, <<7328, 4320>>,
    <<7329, 4321>>, <<7330, 4322>>, <<7331, 4323>>, <<7332, 4324>>, <<7333, 4325>>, <<7334,
    4326>>, <<7335, 4327>>, <<7336, 4328>>, <<7337, 4329>>, <<7338, 4330>>, <<7339, 4331>>,
    <<7340, 4332>>, <<7341, 4333>>, <<7342, 4334>>, <<7343, 4335>>, <<7344, 4336>>, <<7345,
    4337>>, <<7346, 4338>>, <<7347, 4339>>, <<7348, 4340>>, <<7349, 4341>>, <<7350, 4342>>,
    <<7351, 4343>>, <<7352, 4344>>, <<7353, 4345>>, <<7354, 4346>>, <<7357, 4349>>, <<7358,
    4350>>, <<7359, 4351>>, <<7680, 7681>>, <<7682, 7683>>, <<7684, 7685>>, <<7686, 7687>>,
    <<7688, 7689>>, <<7690, 7691>>, <<7692, 7693>>, <<7694, 7695>>, <<7696, 7697>>, <<7698,
    7699>>, <<7700, 7701>>, <<7702, 7703>>, <<7704, 7705>>, <<7706, 7707>>, <<7708, 7709>>,
    <<7710, 7711>>, <<7712, 7713>>, <<7714, 7715>>, <<7716, 7717>>, <<7718, 7719>>, <<7720,
    7721>>, <<7722, 7723>>, <<7724, 7725>>, <<7726, 7727>>, <<7728, 7729>>, <<7730, 7731>>,
    <<7732, 7733>>, <<7734, 7735>>, <<7736, 7737>>, <<7738, 7739>>, <<7740, 7741>>, <<7742,
    7743>>, <<7744, 7745>>, <<7746, 7747>>, <<7748, 7749>>, <<7750, 7751>>, <<7752, 7753>>,
    <<7754, 7755>>, <<7756, 7757>>, <<7758, 7759>>, <<7760, 7761>>, <<7762, 7763>>, <<7764,
    7765>>, <<7766, 7767>>, <<7768, 7769>>, <<7770, 7771>>, <<7772, 7773>>, <<7774, 7775>>,
    <<7776, 7777>>, <<7778, 7779>>, <<7780, 7781>>, <<7782, 7783>>, <<7784, 7785>>, <<7786,
    7787>>, <<7788, 7789>>, <<7790, 7791>>, <<7792, 7793>>, <<7794, 7795>>, <<7796, 7797>>,
    <<7798, 7799>>, <<7800, 7801>>, <<7802, 7803>>, <<7804, 7805>>, <<7806, 7807>>, <<7808,
    7809>>, <<7810, 7811>>, <<7812, 7813>>, <<7814, 7815>>, <<7816, 7817>>, <<7818, 7819>>,
    <<7820, 7821>>, <<7822, 7823>>, <<7824, 7825>>, <<7826, 7827>>, <<7828, 7829>>, <<7838,
    223>>, <<7840, 7841>>, <<7842, 7843>>, <<7844, 7845>>, <<7846, 7847>>, <<7848, 7849>>,
    <<7850, 7851>>, <<7852, 7853>>, <<7854, 7855>>, <<7856, 7857>>, <<7858, 7859>>, <<7860,
    7861>>, <<7862, 7863>>, <<7864, 7865>>, <<7866, 7867>>, <<7868, 7869>>, <<7870, 7871>>,
    <<7872, 7873>>, <<7874, 7875>>, <<7876, 7877>>, <<7878, 7879>>, <<7880, 7881>>, <<7882,
    7883>>, <<7884, 7885>>, <<7886, 7887>>, <<7888, 7889>>, <<7890, 7891>>, <<7892, 7893>>,
    <<7894, 7895>>, <<7896, 7897>>, <<7898, 7899>>, <<7900, 7901>>, <<7902, 7903>>, <<7904,
    7905>>, <<7906, 7907>>, <<7908, 7909>>, <<7910, 7911>>, <<7912, 7913>>, <<7914, 7915>>,
    <<7916, 7917>>, <<7918, 7919>>, <<7920, 7921>>, <<7922, 7923>>, <<7924, 7925>>, <<7926,
    7927>>, <<7928, 7929>>, <<7930, 7931>>, <<7932, 7933>>, <<7934, 7935>>, <<7944, 7936>>,
    <<7945, 7937>>, <<7946, 7938>>, <<7947, 7939>>, <<7948, 7940>>, <<7949, 7941>>, <<7950,
    7942>>, <<7951, 7943>>, <<7960, 7952>>, <<7961, 7953>>, <<7962, 7954>>, <<7963, 7955>>,
    <<7964, 7956>>, <<7965, 7957>>, <<7976, 7968>>, <<7977, 7969>>, <<7978, 7970>>, <<7979,
    7971>>, <<7980, 7972>>, <<7981, 7973>>, <<7982, 7974>>, <<7983, 7975>>, <<7992, 7984>>,
    <<7993, 7985>>, <<7994, 7986>>, <<7995, 7987>>, <<7996, 7988>>, <<7997, 7989>>, <<7998,
    7990>>, <<7999, 7991>>, <<8008, 8000>>, <<8009, 8001>>, <<8010, 8002>>, <<8011, 8003>>,
    <<8012, 8004>>, <<8013, 8005>>, <<8025, 8017>>, <<8027, 8019>>, <<8029, 8021>>, <<8031,
    8023>>, <<8040, 8032>>, <<8041, 8033>>, <<8042, 8034>>, <<8043, 8035>>, <<8044, 8036>>,
    <<8045, 8037>>, <<8046, 8038>>, <<8047, 8039>>, <<8072, 8064>>, <<8073, 8065>>, <<8074,
    8066>>, <<8075, 8067>>, <<8076, 8068>>, <<8077, 8069>>, <<8078, 8070>>, <<8079, 8071>>,
    <<8088, 8080>>, <<8089, 8081>>, <<8090, 8082>>, <<8091, 8083>>, <<8092, 8084>>, <<8093,
    8085>>, <<8094, 8086>>, <<8095, 8087>>, <<8104, 8096>>, <<8105, 8097>>, <<8106, 8098>>,
    <<8107, 8099>>, <<8108, 8100>>, <<8109, 8101>>, <<8110, 8102>>, <<8111, 8103>>, <<8120,
    8112>>, <<8121, 8113>>, <<8122, 8048>>, <<8123, 8049>>, <<8124, 8115>>, <<8136, 8050>>,
    <<8137, 8051>>, <<8138, 8052>>, <<8139, 8053>>, <<8140, 8131>>, <<8152, 8144>>, <<8153,
    8145>>, <<8154, 8054>>, <<8155, 8055>>, <<8168, 8160>>, <<8169, 8161>>, <<8170, 8058>>,
    <<8171, 8059>>, <<8172, 8165>>, <<8184, 8056>>, <<8185, 8057>>, <<8186, 8060>>, <<8187,
    8061>>, <<8188, 8179>>, <<8486, 969>>, <<8490, 107>>, <<8491, 229>>, <<8498, 8526>>, <<8544,
    8560>>, <<8545, 8561>>, <<8546, 8562>>, <<8547, 8563>>, <<8548, 8564>>, <<8549, 8565>>,
    <<8550, 8566>>, <<8551, 8567>>, <<8552, 8568>>, <<8553, 8569>>, <<8554, 8570>>, <<8555,
    8571>>, <<8556, 8572>>, <<8557, 8573>>, <<8558, 8574>>, <<8559, 8575>>, <<8579, 8580>>,
    <<9398, 9424>>, <<9399, 9425>>, <<9400, 9426>>, <<9401, 9427>>, <<9402, 9428>>, <<9403,
    9429>>, <<9404, 9430>>, <<9405, 9431>>, <<9406, 9432>>, <<9407, 9433>>, <<9408, 9434>>,
    <<9409, 9435>>, <<9410, 9436>>, <<9411, 9437>>, <<9412, 9438>>, <<9413, 9439>>, <<9414,
    9440>>, <<9415, 9441>>, <<9416, 9442>>, <<9417, 9443>>, <<9418, 9444>>, <<9419, 9445>>,
    <<9420, 9446>>, <<9421, 9447>>, <<9422, 9448>>, <<9423, 9449>>, <<11264, 11312>>, <<11265,
    11313>>, <<11266, 11314>>, <<11267, 11315>>, <<11268, 11316>>, <<11269, 11317>>, <<11270,
    11318>>, <<11271, 11319>>, <<11272, 11320>>, <<11273, 11321>>, <<11274, 11322>>, <<11275,
    11323>>, <<11276, 11324>>, <<11277, 11325>>, <<11278, 11326>>, <<11279, 11327>>, <<11280,
    11328>>, <<11281, 11329>>, <<11282, 11330>>, <<11283, 11331>>, <<11284, 11332>>, <<11285,
    11333>>, <<11286, 11334>>, <<11287, 11335>>, <<11288, 11336>>, <<11289, 11337>>, <<11290,
    11338>>, <<11291, 11339>>, <<11292, 11340>>, <<11293, 11341>>, <<11294, 11342>>, <<11295,
    11343>>, <<11296, 11344>>, <<11297, 11345>>, <<11298, 11346>>, <<11299, 11347>>, <<11300,
    11348>>, <<11301, 11349>>, <<11302, 11350>>, <<11303, 11351>>, <<11304, 11352>>, <<11305,
    11353>>, <<11306, 11354>>, <<11307, 11355>>, <<11308, 11356>>, <<11309, 11357>>, <<11310,
    11358>>, <<11311, 11359>>, <<11360, 11361>>, <<11362, 619>>, <<11363, 7549>>, <<11364,
    637>>, <<11367, 11368>>, <<11369, 11370>>, <<11371, 11372>>, <<11373, 593>>, <<11374, 625>>,
    <<11375, 592>>, <<11376, 594>>, <<11378, 11379>>, <<11381, 11382>>, <<11390, 575>>, <<11391,
    576>>, <<11392, 11393>>, <<11394, 11395>>, <<11396, 11397>>, <<11398, 11399>>, <<11400,
    11401>>, <<11402, 11403>>, <<11404, 11405>>, <<11406, 11407>>, <<11408, 11409>>, <<11410,
    11411>>, <<11412, 11413>>, <<11414, 11415>>, <<11416, 11417>>, <<11418, 11419>>, <<11420,
    11421>>, <<11422, 11423>>, <<11424, 11425>>, <<11426, 11427>>, <<11428, 11429>>, <<11430,
    11431>>, <<11432, 11433>>, <<11434, 11435>>, <<11436, 11437>>, <<11438, 11439>>, <<11440,
    11441>>, <<11442, 11443>>, <<11444, 11445>>, <<11446, 11447>>, <<11448, 11449>>, <<11450,
    11451>>, <<11452, 11453>>, <<11454, 11455>>, <<11456, 11457>>, <<11458, 11459>>, <<11460,
    11461>>, <<11462, 11463>>, <<11464, 11465>>, <<11466, 11467>>, <<11468, 11469>>, <<11470,
    11471>>, <<11472, 11473>>, <<11474, 11475>>, <<11476, 11477>>, <<11478, 11479>>, <<11480,
    11481>>, <<11482, 11483>>, <<11484, 11485>>, <<11486, 11487>>, <<11488, 11489>>, <<11490,
    11491>>, <<11499, 11500>>, <<11501, 11502>>, <<11506, 11507>>, <<42560, 42561>>, <<42562,
    42563>>, <<42564, 42565>>, <<42566, 42567>>, <<42568, 42569>>, <<42570, 42571>>, <<42572,
    42573>>, <<42574, 42575>>, <<42576, 42577>>, <<42578, 42579>>, <<42580, 42581>>, <<42582,
    42583>>, <<42584, 42585>>, <<42586, 42587>>, <<42588, 42589>>, <<42590, 42591>>, <<42592,
    42593>>, <<42594, 42595>>, <<42596, 42597>>, <<42598, 42599>>, <<42600, 42601>>, <<42602,
    42603>>, <<42604, 42605>>, <<42624, 42625>>, <<42626, 42627>>, <<42628, 42629>>, <<42630,
    42631>>, <<42632, 42633>>, <<42634, 42635>>, <<42636, 42637>>, <<42638, 42639>>, <<42640,
    42641>>, <<42642, 42643>>, <<42644, 42645>>, <<42646, 42647>>, <<42648, 42649>>, <<42650,
    42651>>, <<42786, 42787>>, <<42788, 42789>>, <<42790, 42791>>, <<42792, 42793>>, <<42794,
    42795>>, <<42796, 42797>>, <<42798, 42799>>, <<42802, 42803>>, <<42804, 42805>>, <<42806,
    42807>>, <<42808, 42809>>, <<42810, 42811>>, <<42812, 42813>>, <<42814, 42815>>, <<42816,
    42817>>, <<42818, 42819>>, <<42820, 42821>>, <<42822, 42823>>, <<42824, 42825>>, <<42826,
    42827>>, <<42828, 42829>>, <<42830, 42831>>, <<42832, 42833>>, <<42834, 42835>>, <<42836,
    42837>>, <<42838, 42839>>, <<42840, 42841>>, <<42842, 42843>>, <<42844, 42845>>, <<42846,
    42847>>, <<42848, 42849>>, <<42850, 42851>>, <<42852, 42853>>, <<42854, 42855>>, <<42856,
    42857>>, <<42858, 42859>>, <<42860, 42861>>, <<42862, 42863>>, <<42873, 42874>>, <<42875,
    42876>>, <<42877, 7545>>, <<42878, 42879>>, <<42880, 42881>>, <<42882, 42883>>, <<42884,
    42885>>, <<42886, 42887>>, <<42891, 42892>>, <<42893, 613>>, <<42896, 42897>>, <<42898,
    42899>>, <<42902, 42903>>, <<42904, 42905>>, <<42906, 42907>>, <<42908, 42909>>, <<42910,
    42911>>, <<42912, 42913>>, <<42914, 42915>>, <<42916, 42917>>, <<42918, 42919>>, <<42920,
    42921>>, <<42922, 614>>, <<42923, 604>>, <<42924, 609>>, <<42925, 620>>, <<42926, 618>>,
    <<42928, 670>>, <<42929, 647>>, <<42930, 669>>, <<42931, 43859>>, <<42932, 42933>>, <<42934,
    42935>>, <<42936, 42937>>, <<42938, 42939>>, <<42940, 42941>>, <<42942, 42943>>, <<42944,
    42945>>, <<42946, 42947>>, <<42948, 42900>>, <<42949, 642>>, <<42950, 7566>>, <<42951,
    42952>>, <<42953, 42954>>, <<42960, 42961>>, <<42966, 42967>>, <<42968, 42969>>, <<42997,
    42998>>, <<65313, 65345>>, <<65314, 65346>>, <<65315, 65347>>, <<65316, 65348>>, <<65317,
    65349>>, <<65318, 65350>>, <<65319, 65351>>, <<65320, 65352>>, <<65321, 65353>>, <<65322,
    65354>>, <<65323, 65355>>, <<65324, 65356>>, <<65325, 65357>>, <<65326, 65358>>, <<65327,
    65359>>, <<65328, 65360>>, <<65329, 65361>>, <<65330, 65362>>, <<65331, 65363>>, <<65332,
    65364>>, <<65333, 65365>>, <<65334, 65366>>, <<65335, 65367>>, <<65336, 65368>>, <<65337,
    65369>>, <<65338, 65370>>, <<66560, 66600>>, <<66561, 66601>>, <<66562, 66602>>, <<66563,
    66603>>, <<66564, 66604>>, <<66565, 66605>>, <<66566, 66606>>, <<66567, 66607>>, <<66568,
    66608>>, <<66569, 66609>>, <<66570, 66610>>, <<66571, 66611>>, <<66572, 66612>>, <<66573,
    66613>>, <<66574, 66614>>, <<66575, 66615>>, <<66576, 66616>>, <<66577, 66617>>, <<66578,
    66618>>, <<66579, 66619>>, <<66580, 66620>>, <<66581, 66621>>, <<66582, 66622>>, <<66583,
    66623>>, <<66584, 66624>>, <<66585, 66625>>, <<66586, 66626>>, <<66587, 66627>>, <<66588,
    66628>>, <<66589, 66629>>, <<66590, 66630>>, <<66591, 66631>>, <<66592, 66632>>, <<66593,
    66633>>, <<66594, 66634>>, <<66595, 66635>>, <<66596, 66636>>, <<66597, 66637>>, <<66598,
    66638>>, <<66599, 66639>>, <<66736, 66776>>, <<66737, 66777>>, <<66738, 66778>>, <<66739,
    66779>>, <<66740, 66780>>, <<66741, 66781>>, <<66742, 66782>>, <<66743, 66783>>, <<66744,
    66784>>, <<66745, 66785>>, <<66746, 66786>>, <<66747, 66787>>, <<66748, 66788>>, <<66749,
    66789>>, <<66750, 66790>>, <<66751, 66791>>, <<66752, 66792>>, <<66753, 66793>>, <<66754,
    66794>>, <<66755, 66795>>, <<66756, 66796>>, <<66757, 66797>>, <<66758, 66798>>, <<66759,
    66799>>, <<66760, 66800>>, <<66761, 66801>>, <<66762, 66802>>, <<66763, 66803>>, <<66764,
    66804>>, <<66765, 66805>>, <<66766, 66806>>, <<66767, 66807>>, <<66768, 66808>>, <<66769,
    66809>>, <<66770, 66810>>, <<66771, 66811>>, <<66928, 66967>>, <<66929, 66968>>, <<66930,
    66969>>, <<66931, 66970>>, <<66932, 66971>>, <<66933, 66972>>, <<66934, 66973>>, <<66935,
    66974>>, <<66936, 66975>>, <<66937, 66976>>, <<66938, 66977>>, <<66940, 66979>>, <<66941,
    66980>>, <<66942, 66981>>, <<66943, 66982>>, <<66944, 66983>>, <<66945, 66984>>, <<66946,
    66985>>, <<66947, 66986>>, <<66948, 66987>>, <<66949, 66988>>, <<66950, 66989>>, <<66951,
    66990>>, <<66952, 66991>>, <<66953, 66992>>, <<66954, 66993>>, <<66956, 66995>>, <<66957,
    66996>>, <<66958, 66997>>, <<66959, 66998>>, <<66960, 66999>>, <<66961, 67000>>, <<66962,
    67001>>, <<66964, 67003>>, <<66965, 67004>>, <<68736, 68800>>, <<68737, 68801>>, <<68738,
    68802>>, <<68739, 68803>>, <<68740, 68804>>, <<68741, 68805>>, <<68742, 68806>>, <<68743,
    68807>>, <<68744, 68808>>, <<68745, 68809>>, <<68746, 68810>>, <<68747, 68811>>, <<68748,
    68812>>, <<68749, 68813>>, <<68750, 68814>>, <<68751, 68815>>, <<68752, 68816>>, <<68753,
    68817>>, <<68754, 68818>>, <<68755, 68819>>, <<68756, 68820>>, <<68757, 68821>>, <<68758,
    68822>>, <<68759, 68823>>, <<68760, 68824>>, <<68761, 68825>>, <<68762, 68826>>, <<68763,
    68827>>, <<68764, 68828>>, <<68765, 68829>>, <<68766, 68830>>, <<68767, 68831>>, <<68768,
    68832>>, <<68769, 68833>>, <<68770, 68834>>, <<68771, 68835>>, <<68772, 68836>>, <<68773,
    68837>>, <<68774, 68838>>, <<68775, 68839>>, <<68776, 68840>>, <<68777, 68841>>, <<68778,
    68842>>, <<68779, 68843>>, <<68780, 68844>>, <<68781, 68845>>, <<68782, 68846>>, <<68783,
    68847>>, <<68784, 68848>>, <<68785, 68849>>, <<68786, 68850>>, <<71840, 71872>>, <<71841,
    71873>>, <<71842, 71874>>, <<71843, 71875>>, <<71844, 71876>>, <<71845, 71877>>, <<71846,
    71878>>, <<71847, 71879>>, <<71848, 71880>>, <<71849, 71881>>, <<71850, 71882>>, <<71851,
    71883>>, <<71852, 71884>>, <<71853, 71885>>, <<71854, 71886>>, <<71855, 71887>>, <<71856,
    71888>>, <<71857, 71889>>, <<71858, 71890>>, <<71859, 71891>>, <<71860, 71892>>, <<71861,
    71893>>, <<71862, 71894>>, <<71863, 71895>>, <<71864, 71896>>, <<71865, 71897>>, <<71866,
    71898>>, <<71867, 71899>>, <<71868, 71900>>, <<71869, 71901>>, <<71870, 71902>>, <<71871,
    71903>>, <<93760, 93792>>, <<93761, 93793>>, <<93762, 93794>>, <<93763, 93795>>, <<93764,
    93796>>, <<93765, 93797>>, <<93766, 93798>>, <<93767, 93799>>, <<93768, 93800>>, <<93769,
    93801>>, <<93770, 93802>>, <<93771, 93803>>, <<93772, 93804>>, <<93773, 93805>>, <<93774,
    93806>>, <<93775, 93807>>, <<93776, 93808>>, <<93777, 93809>>, <<93778, 93810>>, <<93779,
    93811>>, <<93780, 93812>>, <<93781, 93813>>, <<93782, 93814>>, <<93783, 93815>>, <<93784,
    93816>>, <<93785, 93817>>, <<93786, 93818>>, <<93787, 93819>>, <<93788, 93820>>, <<93789,
    93821>>, <<93790, 93822>>, <<93791, 93823>>, <<125184, 125218>>, <<125185, 125219>>,
    <<125186, 125220>>, <<125187, 125221>>, <<125188, 125222>>, <<125189, 125223>>, <<125190,
    125224>>, <<125191, 125225>>, <<125192, 125226>>, <<125193, 125227>>, <<125194, 125228>>,
    <<125195, 125229>>, <<125196, 125230>>, <<125197, 125231>>, <<125198, 125232>>, <<125199,
    125233>>, <<125200, 125234>>, <<125201, 125235>>, <<125202, 125236>>, <<125203, 125237>>,
    <<125204, 125238>>, <<125205, 125239>>, <<125206, 125240>>, <<125207, 125241>>, <<125208,
    125242>>, <<125209, 125243>>, <<125210, 125244>>, <<125211, 125245>>, <<125212, 125246>>,
    <<125213, 125247>>, <<125214, 125248>>, <<125215, 125249>>, <<125216, 125250>>, <<125217,
    125251>> >>

UpperChars == [k \in 1..Len(CaseCodes) |-> UChar(CaseCodes[k][1])]
LowerChars == [k \in 1..Len(CaseCodes) |-> UChar(CaseCodes[k][2])]

\* the image of every character of UpperChars
LowerOf ==
    [c \in Range(UpperChars) |->
        LowerChars[CHOOSE k \in 1..Len(CaseCodes) : UpperChars[k] = c]]

\* the code points of the cased characters that are not case-ignorable
CasedCodes == <<
    <<65, 90>>, <<97, 122>>, <<170, 170>>, <<181, 181>>, <<186, 186>>, <<192, 214>>, <<216,
    246>>, <<248, 442>>, <<444, 447>>, <<452, 659>>, <<661, 687>>, <<880, 883>>, <<886, 887>>,
    <<891, 893>>, <<895, 895>>, <<902, 902>>, <<904, 906>>, <<908, 908>>, <<910, 929>>, <<931,
    1013>>, <<1015, 1153>>, <<1162, 1327>>, <<1329, 1366>>, <<1376, 1416>>, <<4256, 4293>>,
    <<4295, 4295>>, <<4301, 4301>>, <<4304, 4346>>, <<4349, 4351>>, <<5024, 5109>>, <<5112,
    5117>>, <<7296, 7304>>, <<7312, 7354>>, <<7357, 7359>>, <<7424, 7467>>, <<7531, 7543>>,
    <<7545, 7578>>, <<7680, 7957>>, <<7960, 7965>>, <<7968, 8005>>, <<8008, 8013>>, <<8016,
    8023>>, <<8025, 8025>>, <<8027, 8027>>, <<8029, 8029>>, <<8031, 8061>>, <<8064, 8116>>,
    <<8118, 8124>>, <<8126, 8126>>, <<8130, 8132>>, <<8134, 8140>>, <<8144, 8147>>, <<8150,
    8155>>, <<8160, 8172>>, <<8178, 8180>>, <<8182, 8188>>, <<8450, 8450>>, <<8455, 8455>>,
    <<8458, 8467>>, <<8469, 8469>>, <<8473, 8477>>, <<8484, 8484>>, <<8486, 8486>>, <<8488,
    8488>>, <<8490, 8493>>, <<8495, 8500>>, <<8505, 8505>>, <<8508, 8511>>, <<8517, 8521>>,
    <<8526, 8526>>, <<8544, 8575>>, <<8579, 8580>>, <<9398, 9449>>, <<11264, 11387>>, <<11390,
    11492>>, <<11499, 11502>>, <<11506, 11507>>, <<11520, 11557>>, <<11559, 11559>>, <<11565,
    11565>>, <<42560, 42605>>, <<42624, 42651>>, <<42786, 42863>>, <<42865, 42887>>, <<42891,
    42894>>, <<42896, 42954>>, <<42960, 42961>>, <<42963, 42963>>, <<42965, 42969>>, <<42997,
    42998>>, <<43002, 43002>>, <<43824, 43866>>, <<43872, 43880>>, <<43888, 43967>>, <<64256,
    64262>>, <<64275, 64279>>, <<65313, 65338>>, <<65345, 65370>>, <<66560, 66639>>, <<66736,
    66771>>, <<66776, 66811>>, <<66928, 66938>>, <<66940, 66954>>, <<66956, 66962>>, <<66964,
    66965>>, <<66967, 66977>>, <<66979, 66993>>, <<66995, 67001>>, <<67003, 67004>>, <<68736,
    68786>>, <<68800, 68850>>, <<71840, 71903>>, <<93760, 93823>>, <<119808, 119892>>, <<119894,
    119964>>, <<119966, 119967>>, <<119970, 119970>>, <<119973, 119974>>, <<119977, 119980>>,
    <<119982, 119993>>, <<119995, 119995>>, <<119997, 120003>>, <<120005, 120069>>, <<120071,
    120074>>, <<120077, 120084>>, <<120086, 120092>>, <<120094, 120121>>, <<120123, 120126>>,
    <<120128, 120132>>, <<120134, 120134>>, <<120138, 120144>>, <<120146, 120485>>, <<120488,
    120512>>, <<120514, 120538>>, <<120540, 120570>>, <<120572, 120596>>, <<120598, 120628>>,
    <<120630, 120654>>, <<120656, 120686>>, <<120688, 120712>>, <<120714, 120744>>, <<120746,
    120770>>, <<120772, 120779>>, <<122624, 122633>>, <<122635, 122654>>, <<125184, 125251>>,
    <<127280, 127305>>, <<127312, 127337>>, <<127344, 127369>> >>

\* the code points of the case-ignorable characters
CaseIgnorableCodes == <<
    <<39, 39>>, <<46, 46>>, <<58, 58>>, <<94, 94>>, <<96, 96>>, <<168, 168>>, <<173, 173>>,
    <<175, 175>>, <<180, 180>>, <<183, 184>>, <<688, 879>>, <<884, 885>>, <<890, 890>>, <<900,
    901>>, <<903, 903>>, <<1155, 1161>>, <<1369, 1369>>, <<1375, 1375>>, <<1425, 1469>>, <<1471,
    1471>>, <<1473, 1474>>, <<1476, 1477>>, <<1479, 1479>>, <<1524, 1524>>, <<1536, 1541>>,
    <<1552, 1562>>, <<1564, 1564>>, <<1600, 1600>>, <<1611, 1631>>, <<1648, 1648>>, <<1750,
    1757>>, <<1759, 1768>>, <<1770, 1773>>, <<1807, 1807>>, <<1809, 1809>>, <<1840, 1866>>,
    <<1958, 1968>>, <<2027, 2037>>, <<2042, 2042>>, <<2045, 2045>>, <<2070, 2093>>, <<2137,
    2139>>, <<2184, 2184>>, <<2192, 2193>>, <<2200, 2207>>, <<2249, 2306>>, <<2362, 2362>>,
    <<2364, 2364>>, <<2369, 2376>>, <<2381, 2381>>, <<2385, 2391>>, <<2402, 2403>>, <<2417,
    2417>>, <<2433, 2433>>, <<2492, 2492>>, <<2497, 2500>>, <<2509, 2509>>, <<2530, 2531>>,
    <<2558, 2558>>, <<2561, 2562>>, <<2620, 2620>>, <<2625, 2626>>, <<2631, 2632>>, <<2635,
    2637>>, <<2641, 2641>>, <<2672, 2673>>, <<2677, 2677>>, <<2689, 2690>>, <<2748, 2748>>,
    <<2753, 2757>>, <<2759, 2760>>, <<2765, 2765>>, <<2786, 2787>>, <<2810, 2815>>, <<2817,
    2817>>, <<2876, 2876>>, <<2879, 2879>>, <<2881, 2884>>, <<2893, 2893>>, <<2901, 2902>>,
    <<2914, 2915>>, <<2946, 2946>>, <<3008, 3008>>, <<3021, 3021>>, <<3072, 3072>>, <<3076,
    3076>>, <<3132, 3132>>, <<3134, 3136>>, <<3142, 3144>>, <<3146, 3149>>, <<3157, 3158>>,
    <<3170, 3171>>, <<3201, 3201>>, <<3260, 3260>>, <<3263, 3263>>, <<3270, 3270>>, <<3276,
    3277>>, <<3298, 3299>>, <<3328, 3329>>, <<3387, 3388>>, <<3393, 3396>>, <<3405, 3405>>,
    <<3426, 3427>>, <<3457, 3457>>, <<3530, 3530>>, <<3538, 3540>>, <<3542, 3542>>, <<3633,
    3633>>, <<3636, 3642>>, <<3654, 3662>>, <<3761, 3761>>, <<3764, 3772>>, <<3782, 3782>>,
    <<3784, 3789>>, <<3864, 3865>>, <<3893, 3893>>, <<3895, 3895>>, <<3897, 3897>>, <<3953,
    3966>>, <<3968, 3972>>, <<3974, 3975>>, <<3981, 3991>>, <<3993, 4028>>, <<4038, 4038>>,
    <<4141, 4144>>, <<4146, 4151>>, <<4153, 4154>>, <<4157, 4158>>, <<4184, 4185>>, <<4190,
    4192>>, <<4209, 4212>>, <<4226, 4226>>, <<4229, 4230>>, <<4237, 4237>>, <<4253, 4253>>,
    <<4348, 4348>>, <<4957, 4959>>, <<5906, 5908>>, <<5938, 5939>>, <<5970, 5971>>, <<6002,
    6003>>, <<6068, 6069>>, <<6071, 6077>>, <<6086, 6086>>, <<6089, 6099>>, <<6103, 6103>>,
    <<6109, 6109>>, <<6155, 6159>>, <<6211, 6211>>, <<6277, 6278>>, <<6313, 6313>>, <<6432,
    6434>>, <<6439, 6440>>, <<6450, 6450>>, <<6457, 6459>>, <<6679, 6680>>, <<6683, 6683>>,
    <<6742, 6742>>, <<6744, 6750>>, <<6752, 6752>>, <<6754, 6754>>, <<6757, 6764>>, <<6771,
    6780>>, <<6783, 6783>>, <<6823, 6823>>, <<6832, 6862>>, <<6912, 6915>>, <<6964, 6964>>,
    <<6966, 6970>>, <<6972, 6972>>, <<6978, 6978>>, <<7019, 7027>>, <<7040, 7041>>, <<7074,
    7077>>, <<7080, 7081>>, <<7083, 7085>>, <<7142, 7142>>, <<7144, 7145>>, <<7149, 7149>>,
    <<7151, 7153>>, <<7212, 7219>>, <<7222, 7223>>, <<7288, 7293>>, <<7376, 7378>>, <<7380,
    7392>>, <<7394, 7400>>, <<7405, 7405>>, <<7412, 7412>>, <<7416, 7417>>, <<7468, 7530>>,
    <<7544, 7544>>, <<7579, 7679>>, <<8125, 8125>>, <<8127, 8129>>, <<8141, 8143>>, <<8157,
    8159>>, <<8173, 8175>>, <<8189, 8190>>, <<8203, 8207>>, <<8216, 8217>>, <<8228, 8228>>,
    <<8231, 8231>>, <<8234, 8238>>, <<8288, 8292>>, <<8294, 8303>>, <<8305, 8305>>, <<8319,
    8319>>, <<8336, 8348>>, <<8400, 8432>>, <<11388, 11389>>, <<11503, 11505>>, <<11631,
    11631>>, <<11647, 11647>>, <<11744, 11775>>, <<11823, 11823>>, <<12293, 12293>>, <<12330,
    12333>>, <<12337, 12341>>, <<12347, 12347>>, <<12441, 12446>>, <<12540, 12542>>, <<40981,
    40981>>, <<42232, 42237>>, <<42508, 42508>>, <<42607, 42610>>, <<42612, 42621>>, <<42623,
    42623>>, <<42652, 42655>>, <<42736, 42737>>, <<42752, 42785>>, <<42864, 42864>>, <<42888,
    42890>>, <<42994, 42996>>, <<43000, 43001>>, <<43010, 43010>>, <<43014, 43014>>, <<43019,
    43019>>, <<43045, 43046>>, <<43052, 43052>>, <<43204, 43205>>, <<43232, 43249>>, <<43263,
    43263>>, <<43302, 43309>>, <<43335, 43345>>, <<43392, 43394>>, <<43443, 43443>>, <<43446,
    43449>>, <<43452, 43453>>, <<43471, 43471>>, <<43493, 43494>>, <<43561, 43566>>, <<43569,
    43570>>, <<43573, 43574>>, <<43587, 43587>>, <<43596, 43596>>, <<43632, 43632>>, <<43644,
    43644>>, <<43696, 43696>>, <<43698, 43700>>, <<43703, 43704>>, <<43710, 43711>>, <<43713,
    43713>>, <<43741, 43741>>, <<43756, 43757>>, <<43763, 43764>>, <<43766, 43766>>, <<43867,
    43871>>, <<43881, 43883>>, <<44005, 44005>>, <<44008, 44008>>, <<44013, 44013>>, <<64286,
    64286>>, <<64434, 64450>>, <<65024, 65039>>, <<65043, 65043>>, <<65056, 65071>>, <<65106,
    65106>>, <<65109, 65109>>, <<65279, 65279>>, <<65287, 65287>>, <<65294, 65294>>, <<65306,
    65306>>, <<65342, 65342>>, <<65344, 65344>>, <<65392, 65392>>, <<65438, 65439>>, <<65507,
    65507>>, <<65529, 65531>>, <<66045, 66045>>, <<66272, 66272>>, <<66422, 66426>>, <<67456,
    67461>>, <<67463, 67504>>, <<67506, 67514>>, <<68097, 68099>>, <<68101, 68102>>, <<68108,
    68111>>, <<68152, 68154>>, <<68159, 68159>>, <<68325, 68326>>, <<68900, 68903>>, <<69291,
    69292>>, <<69446, 69456>>, <<69506, 69509>>, <<69633, 69633>>, <<69688, 69702>>, <<69744,
    69744>>, <<69747, 69748>>, <<69759, 69761>>, <<69811, 69814>>, <<69817, 69818>>, <<69821,
    69821>>, <<69826, 69826>>, <<69837, 69837>>, <<69888, 69890>>, <<69927, 69931>>, <<69933,
    69940>>, <<70003, 70003>>, <<70016, 70017>>, <<70070, 70078>>, <<70089, 70092>>, <<70095,
    70095>>, <<70191, 70193>>, <<70196, 70196>>, <<70198, 70199>>, <<70206, 70206>>, <<70367,
    70367>>, <<70371, 70378>>, <<70400, 70401>>, <<70459, 70460>>, <<70464, 70464>>, <<70502,
    70508>>, <<70512, 70516>>, <<70712, 70719>>, <<70722, 70724>>, <<70726, 70726>>, <<70750,
    70750>>, <<70835, 70840>>, <<70842, 70842>>, <<70847, 70848>>, <<70850, 70851>>, <<71090,
    71093>>, <<71100, 71101>>, <<71103, 71104>>, <<71132, 71133>>, <<71219, 71226>>, <<71229,
    71229>>, <<71231, 71232>>, <<71339, 71339>>, <<71341, 71341>>, <<71344, 71349>>, <<71351,
    71351>>, <<71453, 71455>>, <<71458, 71461>>, <<71463, 71467>>, <<71727, 71735>>, <<71737,
    71738>>, <<71995, 71996>>, <<71998, 71998>>, <<72003, 72003>>, <<72148, 72151>>, <<72154,
    72155>>, <<72160, 72160>>, <<72193, 72202>>, <<72243, 72248>>, <<72251, 72254>>, <<72263,
    72263>>, <<72273, 72278>>, <<72281, 72283>>, <<72330, 72342>>, <<72344, 72345>>, <<72752,
    72758>>, <<72760, 72765>>, <<72767, 72767>>, <<72850, 72871>>, <<72874, 72880>>, <<72882,
    72883>>, <<72885, 72886>>, <<73009, 73014>>, <<73018, 73018>>, <<73020, 73021>>, <<73023,
    73029>>, <<73031, 73031>>, <<73104, 73105>>, <<73109, 73109>>, <<73111, 73111>>, <<73459,
    73460>>, <<78896, 78904>>, <<92912, 92916>>, <<92976, 92982>>, <<92992, 92995>>, <<94031,
    94031>>, <<94095, 94111>>, <<94176, 94177>>, <<94179, 94180>>, <<110576, 110579>>, <<110581,
    110587>>, <<110589, 110590>>, <<113821, 113822>>, <<113824, 113827>>, <<118528, 118573>>,
    <<118576, 118598>>, <<119143, 119145>>, <<119155, 119170>>, <<119173, 119179>>, <<119210,
    119213>>, <<119362, 119364>>, <<121344, 121398>>, <<121403, 121452>>, <<121461, 121461>>,
    <<121476, 121476>>, <<121499, 121503>>, <<121505, 121519>>, <<122880, 122886>>, <<122888,
    122904>>, <<122907, 122913>>, <<122915, 122916>>, <<122918, 122922>>, <<123184, 123197>>,
    <<123566, 123566>>, <<123628, 123631>>, <<125136, 125142>>, <<125252, 125259>>, <<127995,
    127999>>, <<917505, 917505>>, <<917536, 917631>>, <<917760, 917999>> >>

Cased == CharsOf(CasedCodes)
CaseIgnorable == CharsOf(CaseIgnorableCodes)

\* capital sigma, and capital I with dot above
CapitalSigma == UChar(931)
CapitalIDotted == UChar(304)

\* whether the capital sigma at position i ends a word: a cased character
\* stands before it and none after it, case-ignorable characters skipped
FinalSigma(s, i) ==
    /\ \E j \in 1..(i - 1) :
          s[j] \in Cased /\ \A k \in (j + 1)..(i - 1) : s[k] \in CaseIgnorable
    /\ ~\E j \in (i + 1)..Len(s) :
          s[j] \in Cased /\ \A k \in (i + 1)..(j - 1) : s[k] \in CaseIgnorable

\* str.lower()
Lower(s) ==
    Flatten([i \in 1..Len(s) |->
        IF s[i] = CapitalSigma
        THEN IF FinalSigma(s, i) THEN <<UChar(962)>> ELSE <<UChar(963)>>
        ELSE IF s[i] = CapitalIDotted THEN <<"i", UChar(775)>>
        ELSE IF s[i] \in DOMAIN LowerOf THEN <<LowerOf[s[i]]>>
        ELSE <<s[i]>>])

\* str.split(): the maximal runs of characters that are not whitespace
RECURSIVE Words(_)
Words(s) ==
    LET t == Strip(s)
    IN IF t = <<>> THEN <<>>
       ELSE IF \A i \in 1..Len(t) : t[i] \notin Whitespace THEN <<t>>
       ELSE LET e == CHOOSE i \in 1..Len(t) :
                         t[i] \in Whitespace /\ \A j \in 1..(i-1) : t[j] \notin Whitespace
            IN <<SubSeq(t, 1, e - 1)>> \o Words(SubSeq(t, e, Len(t)))

\* the character U+00B2, superscript two: a digit for str.isdigit(), not a
\* decimal digit for int()
SuperscriptTwo == UChar(178)

\* the code points str.isdigit() is true of that are not decimal digits
OtherDigitCodes == <<
    <<178, 179>>, <<185, 185>>, <<4969, 4977>>, <<6618, 6618>>, <<8304, 8304>>, <<8308, 8313>>,
    <<8320, 8329>>, <<9312, 9320>>, <<9332, 9340>>, <<9352, 9360>>, <<9450, 9450>>, <<9461,
    9469>>, <<9471, 9471>>, <<10102, 10110>>, <<10112, 10120>>, <<10122, 10130>>, <<68160,
    68163>>, <<69216, 69224>>, <<69714, 69722>>, <<127232, 127242>> >>

\* the characters str.isdigit() is true of
IsDigitSet == DigitSet \cup CharsOf(OtherDigitCodes)

\* str.isdigit()
IsDigit(s) == s # <<>> /\ \A i \in 1..Len(s) : s[i] \in IsDigitSet

\* int(s) raises ValueError for a string that isdigit() has let through: a
\* character that is no decimal digit, or more than MaxStrDigits digits
IntRaises(s) ==
    \/ \E i \in 1..Len(s) : s[i] \notin DigitSet
    \/ Len(s) > MaxStrDigits

\* lines 27-36: the scholar results that have a title and an abstract
ScholarPapers(results) ==
    SelectSeq(results, LAMBDA r : r.title # <<>> /\ r.abstract # <<>>)

\* DataFrame.drop_duplicates(subset=['title']): the first row of each title
RECURSIVE KeepFirst(_, _)
KeepFirst(kept, rows) ==
    IF rows = <<>> THEN kept
    ELSE IF \E j \in 1..Len(kept) : kept[j].title = rows[1].title
         THEN KeepFirst(kept, Tail(rows))
         ELSE KeepFirst(Append(kept, rows[1]), Tail(rows))

DropDuplicates(rows) == KeepFirst(<<>>, rows)

\* a mutant of IsExactMatch: the words may be spread over title and abstract
IsExactMatchSpread(row, t) ==
    \E topic_words \in {Range(Words(Lower(t)))} :
    \E title \in {Lower(row.title)}, abstract \in {Lower(row.abstract)} :
        \A w \in topic_words : Contains(title, w) \/ Contains(abstract, w)

\* lines 55-60: every word of the topic in the title, or every word in the abstract
IsExactMatch(row, t) ==
    \E topic_words \in {Range(Words(Lower(t)))} :
    \E title \in {Lower(row.title)}, abstract \in {Lower(row.abstract)} :
        \/ \A w \in topic_words : Contains(title, w)
        \/ \A w \in topic_words : Contains(abstract, w)

\* a mutant of AssignLine: a row keeps the first value the reply gave it
AssignLineKeepsFirst(assignments, rawline, rows, remaining) ==
    LET line == Strip(rawline)
        colon == Find(line, <<":">>, 1)
        idx == SubSeq(line, 1, colon - 1)
        val == SubSeq(line, colon + 1, Len(line))
    IN IF line = <<>> \/ colon = 0 THEN assignments
       ELSE IF ~(IsDigit(idx) /\ IsDigit(val)) THEN assignments
       ELSE LET i == DecVal(idx)
                v == DecVal(val)
            IN IF ~(0 <= i /\ i < rows /\ 0 <= v /\ v <= remaining) THEN assignments
               ELSE IF \E k \in 1..Len(assignments) : assignments[k][1] = i
                    THEN assignments
                    ELSE Append(assignments, <<i, v>>)

\* lines 126-133: the assignments after one more line of the reply; the dict
\* keeps a key at the place of its first insertion
AssignLine(assignments, rawline, rows, remaining) ==
    LET line == Strip(rawline)
        colon == Find(line, <<":">>, 1)
        idx == SubSeq(line, 1, colon - 1)
        val == SubSeq(line, colon + 1, Len(line))
    IN IF line = <<>> \/ colon = 0 THEN assignments
       ELSE IF ~(IsDigit(idx) /\ IsDigit(val)) THEN assignments
       ELSE LET i == DecVal(idx)
                v == DecVal(val)
            IN IF ~(0 <= i /\ i < rows /\ 0 <= v /\ v <= remaining) THEN assignments
               ELSE IF \E k \in 1..Len(assignments) : assignments[k][1] = i
                    THEN [k \in 1..Len(assignments) |->
                             IF assignments[k][1] = i THEN <<i, v>> ELSE assignments[k]]
                    ELSE Append(assignments, <<i, v>>)

\* lines 118-133: the dict built from the reply
RECURSIVE AssignLines(_, _, _, _)
AssignLines(assignments, lines, rows, remaining) ==
    IF lines = <<>> THEN assignments
    ELSE CHOOSE dict \in {AssignLines(next, Tail(lines), rows, remaining) :
                              next \in {AssignLine(assignments, lines[1], rows, remaining)}} : TRUE

ParseAssignments(reply, rows, remaining) ==
    AssignLines(<<>>, SplitOn(Strip(reply), <<"\n">>), rows, remaining)

\* list.sort(key=lambda x: x[1]): stable, ascending in the value
InsertByValue(sorted, x) ==
    LET at == IF \E k \in 1..Len(sorted) : sorted[k][2] > x[2]
              THEN CHOOSE k \in 1..Len(sorted) :
                       sorted[k][2] > x[2] /\ \A j \in 1..(k-1) : sorted[j][2] <= x[2]
              ELSE Len(sorted) + 1
    IN SubSeq(sorted, 1, at - 1) \o <<x>> \o SubSeq(sorted, at, Len(sorted))

RECURSIVE SortInto(_, _)
SortInto(sorted, pairs) ==
    IF pairs = <<>> THEN sorted
    ELSE SortInto(InsertByValue(sorted, pairs[1]), Tail(pairs))

SortByValue(pairs) == SortInto(<<>>, pairs)

\* lines 120-131: line 131, int(idx), int(val), raises ValueError
LineRaises(rawline) ==
    LET line == Strip(rawline)
        colon == Find(line, <<":">>, 1)
        idx == SubSeq(line, 1, colon - 1)
        val == SubSeq(line, colon + 1, Len(line))
    IN /\ line # <<>>
       /\ colon # 0
       /\ IsDigit(idx) /\ IsDigit(val)
       /\ IntRaises(idx) \/ IntRaises(val)

\* lines 118-133: the loop over the lines of the reply is left by ValueError
ParseRaises(reply) ==
    \E lines \in {SplitOn(Strip(reply), <<"\n">>)} :
        \E k \in 1..Len(lines) : LineRaises(lines[k])

\* lines 136-138
OrderedIndices(assignments) ==
    LET selected_indices == SortByValue(SelectSeq(assignments, LAMBDA a : a[2] > 0))
    IN [k \in 1..Len(selected_indices) |-> selected_indices[k][1]]

\* lines 45-46: the rows of both clients, the first row of each title
Combined(d, results) == DropDuplicates(d \o ScholarPapers(results))

\* lines 55-70: the two partitions of combined_df, whose rows keep their
\* index label, and the number of records still wanted
Partition(combined, t, target) ==
    LET labelled == [k \in 1..Len(combined) |-> [label |-> k - 1, row |-> combined[k]]]
        exact == SelectSeq(labelled, LAMBDA x : IsExactMatch(x.row, t))
        other == SelectSeq(labelled, LAMBDA x : ~IsExactMatch(x.row, t))
    IN [combined_df |-> combined, exact_match_df |-> exact, other_papers_df |-> other,
        remaining_papers |-> IF target - Len(exact) > 0 THEN target - Len(exact) ELSE 0]

\* _format_papers_for_prompt, lines 159-167: the number after "Paper" of each
\* row of the frame, the index label that iterrows gives
PromptNumbers(frame) == [k \in 1..Len(frame) |-> frame[k].label]

\* a mutant of NeedsRanking: the call is made also when nothing more is wanted
NeedsRankingAtZero(parts) ==
    parts.remaining_papers >= 0 /\ parts.other_papers_df # <<>>

\* line 72: whether the ranking model is called
NeedsRanking(parts) ==
    parts.remaining_papers > 0 /\ parts.other_papers_df # <<>>

\* a mutant of Assemble: the ranked records are put before the exact matches
AssembleRankedFirst(parts, ranked, assignments) ==
    LET ordered_indices == OrderedIndices(assignments)
        selected == [k \in 1..Len(ordered_indices) |->
                        parts.other_papers_df[ordered_indices[k] + 1]]
        final == DropDuplicates(
                     [k \in 1..Len(ordered_indices) |->
                            parts.other_papers_df[ordered_indices[k] + 1].row]
                     \o [k \in 1..Len(parts.exact_match_df) |-> parts.exact_match_df[k].row])
    IN [combined_df |-> parts.combined_df,
        exact_match_df |-> parts.exact_match_df,
        other_papers_df |-> parts.other_papers_df,
        remaining_papers |-> parts.remaining_papers,
        ranked |-> ranked,
        assignments |-> assignments,
        selected_other_papers |-> selected,
        final_df |-> final]

\* lines 136-145: the frames select_papers returns from for the partitions
\* and the dict of assignments
Assemble(parts, ranked, assignments) ==
    LET ordered_indices == OrderedIndices(assignments)
        selected == [k \in 1..Len(ordered_indices) |->
                        parts.other_papers_df[ordered_indices[k] + 1]]
        final == DropDuplicates(
                     [k \in 1..Len(parts.exact_match_df) |-> parts.exact_match_df[k].row]
                     \o [k \in 1..Len(ordered_indices) |->
                            parts.other_papers_df[ordered_indices[k] + 1].row])
    IN [combined_df |-> parts.combined_df,
        exact_match_df |-> parts.exact_match_df,
        other_papers_df |-> parts.other_papers_df,
        remaining_papers |-> parts.remaining_papers,
        ranked |-> ranked,
        assignments |-> assignments,
        selected_other_papers |-> selected,
        final_df |-> final]

-----------------------------------------------------------------------------
(* SpecSelect: select_papers applied to the records of the two clients *)

Paper(title, abstract, source) ==
    [title |-> title, abstract |-> abstract, source |-> source]

TopicGeneEditing == <<"G", "e", "n", "e", " ", "e", "d", "i", "t", "i", "n", "g">>

\* records of the metadata client
PubmedPool ==
    << Paper(<<"G", "e", "n", "e", " ", "e", "d", "i", "t", "i", "n", "g">>, <<"a">>, "pubmed"),
       Paper(<<"g", "e", "n", "e", " ", "e", "d", "i", "t", "i", "n", "g", " ">>, <<"b">>, "pubmed"),
       Paper(<<"C", "e", "l", "l", "s">>, <<"g", "e", "n", "e">>, "pubmed") >>

\* records of the scholar client: a title the metadata client also returns,
\* the topic's words spread over title and abstract, the topic's words in
\* the abstract, a record without abstract
ScholarPool ==
    << Paper(<<"G", "e", "n", "e", " ", "e", "d", "i", "t", "i", "n", "g">>, <<"c">>, "scholar"),
       Paper(<<"E", "d", "i", "t", "i", "n", "g">>, <<"a", " ", "g", "e", "n", "e">>, "scholar"),
       Paper(<<"T", "h", "e", "r", "a", "p", "y">>,
             <<"E", "d", "i", "t", "i", "n", "g", " ", "a", " ", "g", "e", "n", "e">>, "scholar"),
       Paper(<<"C", "e", "l", "l", "s">>, <<>>, "scholar") >>

\* the sequences without repetition over the elements of a pool
Arrangements(pool) ==
    {a \in UNION {[1..k -> Range(pool)] : k \in 0..Len(pool)} :
        \A i, j \in DOMAIN a : i # j => a[i] # a[j]}

\* the subsequences of a pool, in the pool's order
RECURSIVE Picked(_, _)
Picked(pool, S) ==
    IF pool = <<>> THEN <<>>
    ELSE (IF Len(pool) \in S THEN Picked(SubSeq(pool, 1, Len(pool) - 1), S) \o <<pool[Len(pool)]>>
          ELSE Picked(SubSeq(pool, 1, Len(pool) - 1), S))

Selections(pool) == {Picked(pool, S) : S \in SUBSET (1..Len(pool))}

\* the lines the ranking model may write
ReplyLines ==
    { <<"0", ":", "1">>, <<"1", ":", "1">>, <<"0", ":", "2">>, <<"1", ":", "0">>,
      <<"2", ":", "1">>, <<" ", "1", ":", "2", " ">>, <<"1", ":", " ", "1">>, <<"x">>,
      <<SuperscriptTwo, ":", "1">> }

RankingReplies ==
    {Join(ls, <<"\n">>) : ls \in UNION {[1..k -> ReplyLines] : k \in 0..MaxLines}}

\* the replies on which line 131 raises, and those that are parsed to the end
RaisingReplies == {reply \in RankingReplies : ParseRaises(reply)}
ParsedReplies == RankingReplies \ RaisingReplies

InitSelect ==
    /\ pc = "select_papers"
    /\ df \in Arrangements(PubmedPool)
    /\ scholar_results \in Selections(ScholarPool)
    /\ topic = TopicGeneEditing
    /\ num_papers \in 0..MaxTarget
    /\ content = <<>>
    /\ sel = NoFrames
    /\ llm_cites = <<>>
    /\ llm_entries = 0
    /\ llm_tail = "none"
    /\ review_text = <<>>
    /\ bibliography = <<>>
    /\ refined_text = <<>>
    /\ citations = NoOutcome
    /\ valid = NoOutcome
    /\ refined = NoOutcome
    /\ RunIdle
    /\ FetchIdle
    /\ ScholarIdle

\* select_papers on two empty inputs: lines 15-17
SelectNothing ==
    /\ pc = "select_papers"
    /\ df = <<>> /\ scholar_results = <<>>
    /\ sel' = NoFrames
    /\ pc' = "selected"
    /\ UNCHANGED <<df, scholar_results, topic, num_papers, content>>
    /\ UNCHANGED <<citeVars, runVars, fetchVars, scholarVars>>

\* select_papers when line 72 skips the ranking
SelectWithoutRanking ==
    /\ pc = "select_papers"
    /\ ~(df = <<>> /\ scholar_results = <<>>)
    /\ \E combined \in {Combined(df, scholar_results)} :
       \E parts \in {Partition(combined, topic, num_papers)} :
          /\ ~NeedsRanking(parts)
          /\ sel' = Assemble(parts, FALSE, <<>>)
    /\ pc' = "selected"
    /\ UNCHANGED <<df, scholar_results, topic, num_papers, content>>
    /\ UNCHANGED <<citeVars, runVars, fetchVars, scholarVars>>

\* select_papers when the ranking model is called and replies
SelectWithRanking ==
    /\ pc = "select_papers"
    /\ ~(df = <<>> /\ scholar_results = <<>>)
    /\ \E combined \in {Combined(df, scholar_results)} :
       \E parts \in {Partition(combined, topic, num_papers)} :
          /\ NeedsRanking(parts)
          /\ \E reply \in ParsedReplies :
                /\ \E assignments \in {ParseAssignments(reply, Len(parts.other_papers_df),
                                                     parts.remaining_papers)} :
                      /\ content' = reply
                      /\ sel' = Assemble(parts, TRUE, assignments)
    /\ pc' = "selected"
    /\ UNCHANGED <<df, scholar_results, topic, num_papers>>
    /\ UNCHANGED <<citeVars, runVars, fetchVars, scholarVars>>

\* select_papers when the ranking model is called and line 131 raises
\* ValueError on its reply, which nothing in select_papers catches
SelectRankingRaises ==
    /\ pc = "select_papers"
    /\ ~(df = <<>> /\ scholar_results = <<>>)
    /\ \E combined \in {Combined(df, scholar_results)} :
       \E parts \in {Partition(combined, topic, num_papers)} :
          /\ NeedsRanking(parts)
          /\ \E reply \in RaisingReplies : content' = reply
    /\ pc' = "raised"
    /\ UNCHANGED <<df, scholar_results, topic, num_papers, sel>>
    /\ UNCHANGED <<citeVars, runVars, fetchVars, scholarVars>>

NextSelect ==
    \/ SelectNothing
    \/ SelectWithoutRanking
    \/ SelectWithRanking
    \/ SelectRankingRaises

SpecSelect == InitSelect /\ [][NextSelect]_vars

-----------------------------------------------------------------------------
(* SpecScholar: scholar_search.py, scholar_and_pubmed_search and its
   fetch_pubmed_info tasks *)

\* range(4), line 149: the listing pages read
ScholarPageCount == 4

\* the link titles a listing page may show, in page order
PageListings ==
    { <<>>, << <<"t", "1">> >>, << <<"t", "1">>, <<"t", "2">> >>,
      << <<"t", "2">>, <<"t", "3">> >> }

\* the link titles a listing page may show for the topic of run
RunListings == { <<>>, <<ScholarPool[2].title>>, <<ScholarPool[2].title, ScholarPool[3].title>> }

\* line 157: the listing pages the site may answer the search term with
ListingsOf(search_term) ==
    IF search_term = TopicGeneEditing THEN RunListings ELSE PageListings

\* the detail pages: without an abstract block, or with a block of one text
DetailPages ==
    {[block |-> FALSE, text |-> <<>>]}
    \cup {[block |-> TRUE, text |-> t] :
             t \in { <<"A">>, <<" ", "A", "\n">>, <<"B">>, <<" ">>, <<>> }}

\* the article pages of a title the listing shows for the topic of run:
\* without an abstract block, or with the abstract of the record
RunDetailPages(title) ==
    {[block |-> FALSE, text |-> <<>>]}
    \cup {[block |-> TRUE, text |-> ScholarPool[k].abstract] :
             k \in {j \in DOMAIN ScholarPool : ScholarPool[j].title = title}}

\* line 44: the article pages the first result of a title may be
DetailPagesOf(title) ==
    IF \E k \in DOMAIN ScholarPool : ScholarPool[k].title = title
    THEN RunDetailPages(title) ELSE DetailPages

\* lines 160-165: the titles of a page, each appended unless already there
RECURSIVE AddTitles(_, _)
AddTitles(titles, found) ==
    IF found = <<>> THEN titles
    ELSE IF found[1] \in Range(titles) THEN AddTitles(titles, Tail(found))
    ELSE AddTitles(Append(titles, found[1]), Tail(found))

\* a fetch_pubmed_info task that has not returned
Pending == [state |-> "pending", abstract |-> <<>>]

\* fetch_pubmed_info returned None
NoRecord == [state |-> "none", abstract |-> <<>>]

\* lines 56-59 and 110-118: get_text(strip=True) of the abstract block; None
\* without a block or with an empty text, else the dict
DetailOutcome(detail) ==
    IF ~detail.block \/ Strip(detail.text) = <<>>
    THEN NoRecord
    ELSE [state |-> "data", abstract |-> Strip(detail.text)]

\* a mutant of SeenBefore: no abstract counts as seen
NeverSeen(abstract, seen) == FALSE

\* line 178: normalized_abstract in seen_abstracts
SeenBefore(abstract, seen) == abstract \in seen

\* lines 174-191: the loop over zip(all_titles, pubmed_results)
RECURSIVE CombineFrom(_, _, _, _, _)
CombineFrom(out, seen, titles, fetched, k) ==
    IF k > Len(titles) THEN out
    ELSE IF fetched[k].state # "data" THEN CombineFrom(out, seen, titles, fetched, k + 1)
    ELSE IF SeenBefore(Strip(fetched[k].abstract), seen)
         THEN CombineFrom(out, seen, titles, fetched, k + 1)
    ELSE CombineFrom(Append(out, [title |-> titles[k], abstract |-> fetched[k].abstract]),
                     seen \cup {Strip(fetched[k].abstract)}, titles, fetched, k + 1)

InitScholar ==
    /\ pc = "scholar_pages"
    /\ all_titles = <<>>
    /\ page = 0
    /\ xref = <<>>
    /\ pubmed_results = <<>>
    /\ scholar_list = <<>>
    /\ gather_exception = "none"
    /\ done_callbacks = <<>>
    /\ llm_cites = <<>>
    /\ llm_entries = 0
    /\ llm_tail = "none"
    /\ review_text = <<>>
    /\ bibliography = <<>>
    /\ refined_text = <<>>
    /\ citations = NoOutcome
    /\ valid = NoOutcome
    /\ refined = NoOutcome
    /\ RunIdle
    /\ SelectIdle
    /\ FetchIdle

\* lines 149-165: one listing page is fetched and its titles collected
ScholarPage ==
    /\ pc = "scholar_pages"
    /\ page < ScholarPageCount
    /\ \E listing \in ListingsOf(topic) : all_titles' = AddTitles(all_titles, listing)
    /\ page' = page + 1
    /\ UNCHANGED <<pc, xref, pubmed_results, scholar_list, gather_exception, done_callbacks>>
    /\ UNCHANGED <<citeVars, runVars, selVars, fetchVars>>

\* line 157: the request of a listing page fails; nothing catches the
\* exception
ScholarPageRaises ==
    /\ pc = "scholar_pages"
    /\ page < ScholarPageCount
    /\ pc' = "raised"
    /\ error' = "ClientError"
    /\ UNCHANGED <<events, initial_review, final_review>>
    /\ UNCHANGED <<scholarVars, citeVars, selVars, fetchVars>>

\* line 158: the body of a listing page cannot be decoded; response.text()
\* raises and nothing catches the exception
ScholarPageUnreadable ==
    /\ pc = "scholar_pages"
    /\ page < ScholarPageCount
    /\ pc' = "raised"
    /\ error' = "UnicodeDecodeError"
    /\ UNCHANGED <<events, initial_review, final_review>>
    /\ UNCHANGED <<scholarVars, citeVars, selVars, fetchVars>>

\* lines 168-169: one fetch_pubmed_info task for each title
LaunchTasks ==
    /\ pc = "scholar_pages"
    /\ page = ScholarPageCount
    /\ xref' = [i \in 1..Len(all_titles) |-> "created"]
    /\ pubmed_results' = [i \in 1..Len(all_titles) |-> Pending]
    /\ pc' = "xref"
    /\ UNCHANGED <<all_titles, page, scholar_list, gather_exception, done_callbacks>>
    /\ UNCHANGED <<citeVars, runVars, selVars, fetchVars>>

\* The positions of a fetch_pubmed_info task: "created" by gather and not
\* yet run; "searching": its search request is sent and it waits for the
\* response (line 31); "search_read": it waits for the body of the response
\* (line 32); "linked": the request of the article page is sent and it waits
\* for the response (line 44); "detail_read": it waits for the body (line
\* 45); "done": it has returned; "failed": an exception has ended it.

\* The tasks take their turns while scholar_and_pubmed_search waits for
\* gather at line 169; gather is called without return_exceptions and does
\* not cancel them, so they go on taking turns after the exception of one of
\* them has left the call
TasksRun == pc \in {"xref", "raised"}

\* line 31, the first turn of a task: the tasks that gather has created have
\* their first turn in the order of all_titles, and each sends its search
\* request
XrefSend(i) ==
    /\ pc = "xref"
    /\ xref[i] = "created"
    /\ \A j \in 1..(i - 1) : xref[j] # "created"
    /\ xref' = [xref EXCEPT ![i] = "searching"]
    /\ UNCHANGED <<pc, all_titles, page, pubmed_results, scholar_list, gather_exception, done_callbacks>>
    /\ UNCHANGED <<citeVars, runVars, selVars, fetchVars>>

\* whether every task has had its first turn: the responses are handled in
\* later turns of the event loop
AllSent == \A j \in DOMAIN xref : xref[j] # "created"

\* line 31: the response of the search has arrived
XrefSearchResponds(i) ==
    /\ TasksRun
    /\ AllSent
    /\ xref[i] = "searching"
    /\ xref' = [xref EXCEPT ![i] = "search_read"]
    /\ UNCHANGED <<pc, all_titles, page, pubmed_results, scholar_list, gather_exception, done_callbacks>>
    /\ UNCHANGED <<citeVars, runVars, selVars, fetchVars>>

\* lines 32-44: the body of the search page is read; without a result link
\* the task returns None, with one it sends the request of the article page
XrefSearch(i) ==
    /\ TasksRun
    /\ xref[i] = "search_read"
    /\ \E first_result_link \in BOOLEAN :
          IF first_result_link
          THEN /\ xref' = [xref EXCEPT ![i] = "linked"]
               /\ UNCHANGED pubmed_results
          ELSE /\ xref' = [xref EXCEPT ![i] = "done"]
               /\ pubmed_results' = [pubmed_results EXCEPT ![i] = NoRecord]
    /\ UNCHANGED <<pc, all_titles, page, scholar_list, gather_exception, done_callbacks>>
    /\ UNCHANGED <<citeVars, runVars, selVars, fetchVars>>

\* line 44: the response of the article page has arrived
XrefDetailResponds(i) ==
    /\ TasksRun
    /\ xref[i] = "linked"
    /\ xref' = [xref EXCEPT ![i] = "detail_read"]
    /\ UNCHANGED <<pc, all_titles, page, pubmed_results, scholar_list, gather_exception, done_callbacks>>
    /\ UNCHANGED <<citeVars, runVars, selVars, fetchVars>>

\* lines 45-59 and 110-118: the body of the article page is read; the dict,
\* or None without an abstract
XrefDetail(i) ==
    /\ TasksRun
    /\ xref[i] = "detail_read"
    /\ \E detail \in DetailPagesOf(all_titles[i]) :
          pubmed_results' = [pubmed_results EXCEPT ![i] = DetailOutcome(detail)]
    /\ xref' = [xref EXCEPT ![i] = "done"]
    /\ UNCHANGED <<pc, all_titles, page, scholar_list, gather_exception, done_callbacks>>
    /\ UNCHANGED <<citeVars, runVars, selVars, fetchVars>>

\* lines 31 and 44: a request of the task fails; fetch_pubmed_info has no
\* try block, so the exception ends the task, which schedules the
\* _done_callback gather gave it
XrefRaises(i) ==
    /\ TasksRun
    /\ AllSent
    /\ xref[i] \in {"searching", "linked"}
    /\ xref' = [xref EXCEPT ![i] = "failed"]
    /\ done_callbacks' = Append(done_callbacks, "ClientError")
    /\ UNCHANGED <<pc, all_titles, page, pubmed_results, scholar_list, gather_exception>>
    /\ UNCHANGED <<citeVars, runVars, selVars, fetchVars>>

\* lines 32 and 45: the body of a response cannot be decoded;
\* response.text() raises and the exception ends the task, which schedules
\* the _done_callback gather gave it
XrefUnreadable(i) ==
    /\ TasksRun
    /\ xref[i] \in {"search_read", "detail_read"}
    /\ xref' = [xref EXCEPT ![i] = "failed"]
    /\ done_callbacks' = Append(done_callbacks, "UnicodeDecodeError")
    /\ UNCHANGED <<pc, all_titles, page, pubmed_results, scholar_list, gather_exception>>
    /\ UNCHANGED <<citeVars, runVars, selVars, fetchVars>>

\* asyncio.gather, _done_callback: the first exception of a task is set on
\* the future that scholar_and_pubmed_search waits for; later ones are dropped
FirstException(exception) ==
    IF gather_exception = "none" THEN exception ELSE gather_exception

\* line 169, the _done_callback of a failed task, in a later callback of the
\* event loop than the step that ended the task; the callbacks run in the
\* order they were scheduled
GatherDoneCallback ==
    /\ TasksRun
    /\ done_callbacks # <<>>
    /\ gather_exception' = FirstException(Head(done_callbacks))
    /\ done_callbacks' = Tail(done_callbacks)
    /\ UNCHANGED <<pc, all_titles, page, xref, pubmed_results, scholar_list>>
    /\ UNCHANGED <<citeVars, runVars, selVars, fetchVars>>

\* line 169: scholar_and_pubmed_search is resumed with the exception set on
\* the future of gather; nothing catches it (lines 147-169, and line 248 of
\* run), so it leaves the call while the other tasks are still running
GatherRaises ==
    /\ pc = "xref"
    /\ gather_exception # "none"
    /\ pc' = "raised"
    /\ error' = gather_exception
    /\ UNCHANGED <<events, initial_review, final_review>>
    /\ UNCHANGED <<scholarVars, citeVars, selVars, fetchVars>>

\* lines 169-192: every task has returned; the records are combined
CombineResults ==
    /\ pc = "xref"
    /\ \A i \in DOMAIN xref : xref[i] = "done"
    /\ scholar_list' = CombineFrom(<<>>, {}, all_titles, pubmed_results, 1)
    /\ pc' = "scholar_returned"
    /\ UNCHANGED <<all_titles, page, xref, pubmed_results, gather_exception, done_callbacks>>
    /\ UNCHANGED <<citeVars, runVars, selVars, fetchVars>>

NextScholar ==
    \/ ScholarPage
    \/ ScholarPageRaises
    \/ ScholarPageUnreadable
    \/ LaunchTasks
    \/ \E i \in DOMAIN xref : XrefSend(i)
    \/ \E i \in DOMAIN xref : XrefSearchResponds(i)
    \/ \E i \in DOMAIN xref : XrefSearch(i)
    \/ \E i \in DOMAIN xref : XrefDetailResponds(i)
    \/ \E i \in DOMAIN xref : XrefDetail(i)
    \/ \E i \in DOMAIN xref : XrefRaises(i)
    \/ \E i \in DOMAIN xref : XrefUnreadable(i)
    \/ GatherDoneCallback
    \/ GatherRaises
    \/ CombineResults

SpecScholar == InitScholar /\ [][NextScholar]_vars

-----------------------------------------------------------------------------
(* Spec: LitReviewPapersAgent.run with search_method "PubMed Search", every *)
(* remote call returning; the call of scholar_and_pubmed_search takes the    *)
(* steps of SpecScholar, without those of a request that fails               *)

\* the drafts the composing model call may return: an author-date narrative
\* followed by a reference list set in one of several ways
Example_Draft ==
    <<"s", ".", "\n">> \o REFERENCES
    \o <<"\n", "-", "-", "-", "-", "-", "-", "-", "-", "-", "-", "\n", "A", "\n", "B">>

Drafts ==
    {ReplyText(AuthorDateReview, t.kind, t.n) : t \in Tails}
    \cup { Example_Draft,
           AuthorDateReview \o <<" ">> \o REFERENCES \o <<":", " ", "A">>,
           AuthorDateReview \o <<"\n">> \o REFERENCES \o <<"\n", "A", "\n">>
               \o REFERENCES \o <<"\n", "B">> }

\* the replies the refining model call may return
Replies ==
    {ReplyText(c.text, "dashed", 1) : c \in CiteExamples}
    \cup { ReplyText(Example_3_then_1, "none", 0),
           ReplyText(Example_1_3to5_7, "plain", 1),
           ReplyText(<<"[", "1", ",", ",", "2", "]">>, "dashed", 2) }

Init ==
    /\ pc = "scholar_search"
    /\ events = <<>>
    /\ initial_review = <<>>
    /\ final_review = <<>>
    /\ error = "none"
    /\ llm_cites = <<>>
    /\ llm_entries = 0
    /\ llm_tail = "none"
    /\ review_text = <<>>
    /\ bibliography = <<>>
    /\ refined_text = <<>>
    /\ citations = NoOutcome
    /\ valid = NoOutcome
    /\ refined = NoOutcome
    /\ df = <<>>
    /\ scholar_results = <<>>
    /\ topic = TopicGeneEditing
    /\ num_papers = MaxTarget
    /\ content = <<>>
    /\ sel = NoFrames
    /\ FetchIdle
    /\ ScholarIdle

\* a step of run that only calls a collaborator and goes on
RunStep(at, event, next) ==
    /\ pc = at
    /\ events' = Append(events, event)
    /\ pc' = next
    /\ UNCHANGED <<citeVars, selVars, fetchVars, scholarVars, initial_review, final_review, error>>

\* line 248, the call: scholar_and_pubmed_search(topic) is entered with no
\* title collected (line 138); run waits until it returns or raises
ScholarSearch ==
    /\ pc = "scholar_search"
    /\ events' = Append(events, "scholar_search")
    /\ pc' = "scholar_pages"
    /\ UNCHANGED <<citeVars, selVars, fetchVars, scholarVars, initial_review, final_review,
                   error>>

\* line 248, the assignment: the list scholar_and_pubmed_search returned
\* becomes scholar_results
ScholarSearchReturns ==
    /\ pc = "scholar_returned"
    /\ scholar_results' =
          [k \in 1..Len(scholar_list) |->
              Paper(scholar_list[k].title, scholar_list[k].abstract, "scholar")]
    /\ pc' = "exact_search"
    /\ UNCHANGED <<citeVars, fetchVars, scholarVars, runVars, df, topic, num_papers,
                   content, sel>>

\* the bodies the search request of a phrase may be answered with: a JSON
\* object with the identifiers of the records listed, a JSON object
\* without 'esearchresult', a body that is not JSON
RunPayloads ==
    {[kind |-> "result", rows |-> rows] :
        rows \in {<<>>, <<PubmedPool[1]>>, <<PubmedPool[3]>>}}
    \cup {[kind |-> "error", rows |-> <<>>], [kind |-> "not_json", rows |-> <<>>]}

\* largest number of phrases generate_similar_phrases returns to run
MaxPhrases == 2

\* pubmed_search_agent.py lines 35-62: the synchronous search_pubmed on the
\* bodies its search requests are answered with, one per phrase; rows are
\* the records _fetch_article_data returns for the identifiers of a body
sync_search_pubmed(payloads) ==
    IF \E k \in 1..Len(payloads) : payloads[k].kind # "result"
    THEN LET k == CHOOSE i \in 1..Len(payloads) :
                      /\ payloads[i].kind # "result"
                      /\ \A j \in 1..(i - 1) : payloads[j].kind = "result"
         IN [ok |-> FALSE,
             error |-> IF payloads[k].kind = "not_json" THEN "JSONDecodeError" ELSE "KeyError",
             val |-> <<>>]
    ELSE [ok |-> TRUE, error |-> "none",
          val |-> Flatten([k \in 1..Len(payloads) |-> payloads[k].rows])]

\* a search of run: search_pubmed is called on a list of phrases of one of
\* the lengths, and run goes on with its frame or is left by the exception
\* search_pubmed raises
SearchStep(at, next, lengths, keep) ==
    /\ pc = at
    /\ events' = Append(events, at)
    /\ \E count \in lengths :
       \E payloads \in [1..count -> RunPayloads] :
       \E out \in {sync_search_pubmed(payloads)} :
          /\ pc' = IF out.ok THEN next ELSE "raised"
          /\ error' = out.error
          /\ df' = IF out.ok /\ keep THEN out.val ELSE df
    /\ UNCHANGED <<citeVars, fetchVars, scholarVars, initial_review, final_review,
                   scholar_results, topic, num_papers, content, sel>>

\* lines 251-255: the PubMed search of the topic itself
ExactSearch == SearchStep("exact_search", "phrases", {1}, FALSE)

\* lines 263-264: the phrase expansion
GeneratePhrases == RunStep("phrases", "phrases", "additional_search")

\* lines 265-269: the PubMed search of the generated phrases; its frame is
\* the argument df of select_papers
AdditionalSearch == SearchStep("additional_search", "select", 1..MaxPhrases, TRUE)

\* the replies the ranking model call may give in a run: at most one line
RunRankingReplies == {<<>>} \cup ReplyLines

\* select_papers: what the call leaves in content and sel, and whether it
\* raises, for every reply the ranking model may give
SelectOutcomes(frame, results, t, target, replies) ==
    IF frame = <<>> /\ results = <<>>
    THEN {[content |-> <<>>, sel |-> NoFrames, raises |-> FALSE]}
    ELSE LET parts == Partition(Combined(frame, results), t, target)
         IN IF ~NeedsRanking(parts)
            THEN {[content |-> <<>>, sel |-> Assemble(parts, FALSE, <<>>), raises |-> FALSE]}
            ELSE {IF ParseRaises(reply)
                  THEN [content |-> reply, sel |-> NoFrames, raises |-> TRUE]
                  ELSE [content |-> reply,
                        sel |-> Assemble(parts, TRUE,
                                    ParseAssignments(reply, Len(parts.other_papers_df),
                                                     parts.remaining_papers)),
                        raises |-> FALSE] : reply \in replies}

\* lines 274-283: select_papers and the merge with the exact papers; line
\* 131 of select_papers may raise ValueError, which neither it nor run
\* catches
SelectPapers ==
    /\ pc = "select"
    /\ events' = Append(events, "select")
    /\ \E out \in SelectOutcomes(df, scholar_results, topic, num_papers, RunRankingReplies) :
          /\ content' = out.content
          /\ sel' = out.sel
          /\ pc' = IF out.raises THEN "raised" ELSE "compose"
          /\ error' = IF out.raises THEN "ValueError" ELSE "none"
    /\ UNCHANGED <<citeVars, fetchVars, scholarVars, initial_review, final_review,
                   df, scholar_results, topic, num_papers>>

\* lines 351-357: the composing model call
ComposeDraft ==
    /\ pc = "compose"
    /\ \E d \in Drafts : initial_review' = Strip(d)
    /\ events' = Append(events, "compose")
    /\ pc' = "split"
    /\ UNCHANGED <<citeVars, selVars, fetchVars, scholarVars, final_review, error>>

\* lines 360-371: the split of the draft into narrative and bibliography;
\* the outcome is <<review_text, bibliography, error>>
SplitOutcome(draft) ==
    LET references_match == ReferencesSearch(draft)
        bib == IF references_match.found THEN Strip(references_match.group1) ELSE <<>>
        text == IF references_match.found
                THEN Strip(Remove(draft, references_match.group0)) ELSE draft
        segments == SplitOn(draft, REFERENCES \o <<"\n">>)
    IN IF bib # <<>> THEN <<text, bib, "none">>
       ELSE IF Len(segments) < 2 THEN <<text, bib, "IndexError">>
       ELSE <<segments[1], segments[2], "none">>

SplitDraft ==
    /\ pc = "split"
    /\ LET out == SplitOutcome(initial_review)
       IN /\ review_text' = out[1]
          /\ bibliography' = out[2]
          /\ error' = out[3]
          /\ pc' = IF out[3] = "none" THEN "refine" ELSE "raised"
    /\ events' = Append(events, "split")
    /\ UNCHANGED <<llm_cites, llm_entries, llm_tail, refined_text, citations, valid,
                   refined, initial_review, final_review, selVars, fetchVars, scholarVars>>

\* line 376, the call: refine_review(review_text, bibliography)
RefineCall ==
    /\ pc = "refine"
    /\ \E reply \in Replies :
          /\ refined_text' = reply
          /\ refined' = refine_review(reply, bibliography)
    /\ error' = IF refined'.ok THEN "none" ELSE "ValueError"
    /\ pc' = IF refined'.ok THEN "hand_over" ELSE "raised"
    /\ events' = Append(events, "refine")
    /\ UNCHANGED <<llm_cites, llm_entries, llm_tail, review_text, bibliography,
                   citations, valid, initial_review, final_review, selVars, fetchVars, scholarVars>>

\* line 376, the assignment "refined_review, bibliography = ...", and lines
\* 383-411: the returned tuple is unpacked into two names, then the document
\* is assembled and returned
HandOver ==
    /\ pc = "hand_over"
    /\ events' = Append(events, "hand_over")
    /\ IF Len(refined.val) = 2
       THEN /\ bibliography' = refined.val[2]
            /\ final_review' = refined.val[1]
                   \o <<"\n", "\n">> \o REFERENCES \o <<"\n", "\n">> \o refined.val[2]
            /\ error' = "none"
            /\ pc' = "returned"
       ELSE /\ error' = "ValueError"
            /\ pc' = "raised"
            /\ UNCHANGED <<bibliography, final_review>>
    /\ UNCHANGED <<llm_cites, llm_entries, llm_tail, review_text, refined_text,
                   citations, valid, refined, initial_review, selVars, fetchVars, scholarVars>>

Next ==
    \/ ScholarSearch
    \/ ScholarPage
    \/ ScholarPageUnreadable
    \/ LaunchTasks
    \/ \E i \in DOMAIN xref : XrefSend(i)
    \/ \E i \in DOMAIN xref : XrefSearchResponds(i)
    \/ \E i \in DOMAIN xref : XrefSearch(i)
    \/ \E i \in DOMAIN xref : XrefDetailResponds(i)
    \/ \E i \in DOMAIN xref : XrefDetail(i)
    \/ \E i \in DOMAIN xref : XrefUnreadable(i)
    \/ GatherDoneCallback
    \/ GatherRaises
    \/ CombineResults
    \/ ScholarSearchReturns
    \/ ExactSearch
    \/ GeneratePhrases
    \/ AdditionalSearch
    \/ SelectPapers
    \/ ComposeDraft
    \/ SplitDraft
    \/ RefineCall
    \/ HandOver

Spec == Init /\ [][Next]_vars

Last(xs) == xs[Len(xs)]

\* C1: run with "PubMed Search" completes without raising, whatever the
\* model returns, and returns a narrative and a bibliography; in particular
\* the hand-over of refine_review's result to run never raises.
C1_RunNeverRaises ==
    /\ error = "none"
    /\ pc # "raised"
    /\ (events # <<>> /\ Last(events) = "hand_over") => pc = "returned"

\* C7: the split of the draft is an ordered fallback chain: (A) a References
\* header followed by a line of dashes: the bibliography is the text after
\* it and the narrative the draft without that block; (B) otherwise a
\* "References\n": the segment before it and the segment after it; (C)
\* otherwise the whole draft is the narrative, the bibliography is empty and
\* the pipeline continues without error.
C7_SplitFallbackChain ==
    (events # <<>> /\ Last(events) = "split") =>
        LET header == REFERENCES \o <<"\n">>
            p == Find(initial_review, header, 1)
        IN IF ReferencesSearch(initial_review).found
           THEN LET at == CHOOSE q \in 1..Len(initial_review) :
                              /\ HeaderAt(initial_review, q)
                              /\ \A r \in 1..(q-1) : ~HeaderAt(initial_review, r)
                IN /\ bibliography = Strip(ReferencesSearch(initial_review).group1)
                   /\ review_text = Strip(SubSeq(initial_review, 1, at - 1))
                   /\ (initial_review = Example_Draft =>
                          bibliography = <<"A", "\n", "B">> /\ review_text = <<"s", ".">>)
                   /\ error = "none"
           ELSE IF p # 0
           THEN /\ review_text = SubSeq(initial_review, 1, p - 1)
                /\ OccursAt(initial_review, bibliography, p + Len(header))
                /\ error = "none"
           ELSE /\ review_text = initial_review
                /\ bibliography = <<>>
                /\ error = "none"
                /\ pc = "refine"

\* the dedup key of the specification: the title, trimmed, case ignored
NormalizedTitle(row) == Lower(Strip(row.title))

\* C2: the output of select_papers holds one record per distinct normalized
\* title: two records whose titles differ only in letter case or surrounding
\* whitespace are never both in the output.
C2_OneRecordPerNormalizedTitle ==
    pc = "selected" =>
        \A i, j \in 1..Len(sel.final_df) :
            i # j => NormalizedTitle(sel.final_df[i]) # NormalizedTitle(sel.final_df[j])

\* C4: with R = target_size - exact_match_count, every parsed row:value pair
\* with value > R is discarded, and the output never holds more than R ranked
\* (non-exact) records.
C4_RankedSelectionBound ==
    pc = "selected" =>
        LET R == num_papers - Len(sel.exact_match_df)
        IN /\ \A k \in 1..Len(sel.assignments) : sel.assignments[k][2] <= R
           /\ Cardinality({k \in 1..Len(sel.final_df) :
                              ~IsExactMatch(sel.final_df[k], topic)}) <= (IF R > 0 THEN R ELSE 0)

-----------------------------------------------------------------------------
(* async_test2.py: the asynchronous PubMedSearchAgent *)

\* largest number of identifiers of a search response
MaxIds == 4

\* asyncio.Semaphore(3), line 19
SemaphoreValue == 3

\* retries=5 in the call of line 74
Retries == 5

\* the phrase lists search_pubmed is called with
PhraseLists == { <<>>, <<"crispr">>, <<"crispr", "cas9">> }

IdLists == {[k \in 1..n |-> k] : n \in 0..MaxIds}

\* the JSON objects a search request may answer with: with or without an
\* "error" key; without "esearchresult", with an "esearchresult" that has no
\* "idlist", or with an "idlist"
Responses ==
    {[error |-> e, esearchresult |-> r, idlist |-> <<>>] :
        e \in BOOLEAN, r \in {"absent", "no idlist"}}
    \cup {[error |-> e, esearchresult |-> "idlist", idlist |-> ids] :
             e \in BOOLEAN, ids \in IdLists}

\* line 38: "error" in data
HasError(d) == d.error

\* line 77: data.get('esearchresult', {}).get('idlist', [])
IdsOf(d) == IF d.esearchresult = "idlist" THEN d.idlist ELSE <<>>

\* a mutant of MoreAttempts: the loop runs once more
MoreAttemptsInclusive(a, retries) == a <= retries

\* line 35: for attempt in range(1, retries + 1), after the body of attempt a
MoreAttempts(a, retries) == a < retries

\* a mutant of CanAcquire: a permit is handed out at value 0
CanAcquireAtZero(value) == value >= 0

\* line 124: the semaphore lets a task in while its value is positive
CanAcquire(value) == value > 0

\* a mutant of Collected: the batch stops at the first task that returned None
CollectedUntilNone(ph, ids, res) ==
    LET kept == SelectSeq([i \in 1..Len(ids) |-> i],
                          LAMBDA i : \A j \in 1..i : res[j] = "record")
    IN [k \in 1..Len(kept) |-> <<ph, ids[kept[k]]>>]

\* a mutant of Collected: the records in the order their tasks finished
CollectedAsCompleted(ph, ids, res) ==
    [k \in 1..Len(completed) |-> <<ph, ids[completed[k]]>>]

\* lines 88-90: the results that are records, in the order of idlist
Collected(ph, ids, res) ==
    LET kept == SelectSeq([i \in 1..Len(ids) |-> i], LAMBDA i : res[i] = "record")
    IN [k \in 1..Len(kept) |-> <<ph, ids[kept[k]]>>]

\* the detail-fetch tasks whose request is sent and whose body is not yet read
InFlight == {i \in DOMAIN task : task[i] \in {"requesting", "reading"}}

InitFetch ==
    /\ pc = "next_phrase"
    /\ phrases \in PhraseLists
    /\ phrase = 1
    /\ attempt = 0
    /\ sent = 0
    /\ errors_seen = 0
    /\ data = NoData
    /\ idlist = <<>>
    /\ task = <<>>
    /\ result = <<>>
    /\ permits = SemaphoreValue
    /\ all_articles = <<>>
    /\ completed = <<>>
    /\ llm_cites = <<>>
    /\ llm_entries = 0
    /\ llm_tail = "none"
    /\ review_text = <<>>
    /\ bibliography = <<>>
    /\ refined_text = <<>>
    /\ citations = NoOutcome
    /\ valid = NoOutcome
    /\ refined = NoOutcome
    /\ RunIdle
    /\ SelectIdle
    /\ ScholarIdle

\* lines 64-74: the next phrase, and the call of _async_get_json
NextPhrase ==
    /\ pc = "next_phrase"
    /\ phrase <= Len(phrases)
    /\ attempt' = 1
    /\ sent' = 0
    /\ errors_seen' = 0
    /\ pc' = "get_json"
    /\ UNCHANGED <<phrases, phrase, data, idlist, task, result, permits, all_articles, completed>>
    /\ UNCHANGED <<citeVars, runVars, selVars, scholarVars>>

\* lines 96-106: the phrases are exhausted, the frame is returned
ReturnFrame ==
    /\ pc = "next_phrase"
    /\ phrase > Len(phrases)
    /\ pc' = "returned"
    /\ UNCHANGED <<fetchVars, scholarVars, citeVars, runVars, selVars>>

\* lines 36-43: one search request and its response
GetJson ==
    /\ pc = "get_json"
    /\ sent' = sent + 1
    /\ \E response \in Responses :
          /\ data' = response
          /\ IF HasError(response)
             THEN /\ errors_seen' = errors_seen + 1
                  /\ pc' = "retry_sleep"
             ELSE /\ errors_seen' = errors_seen
                  /\ pc' = "got_data"
    /\ UNCHANGED <<phrases, phrase, attempt, idlist, task, result, permits, all_articles, completed>>
    /\ UNCHANGED <<citeVars, runVars, selVars, scholarVars>>

\* lines 36-37: the request or the decoding of its body raises; neither
\* _async_get_json nor search_pubmed catches it
GetJsonRaises ==
    /\ pc = "get_json"
    /\ sent' = sent + 1
    /\ pc' = "raised"
    /\ UNCHANGED <<phrases, phrase, attempt, errors_seen, data, idlist, task, result,
                   permits, all_articles, completed>>
    /\ UNCHANGED <<citeVars, runVars, selVars, scholarVars>>

\* lines 41, 35 and 45: after the delay, the next attempt, or the return of
\* the last response
RetrySleep ==
    /\ pc = "retry_sleep"
    /\ IF MoreAttempts(attempt, Retries)
       THEN /\ attempt' = attempt + 1
            /\ pc' = "get_json"
       ELSE /\ attempt' = attempt
            /\ pc' = "got_data"
    /\ UNCHANGED <<phrases, phrase, sent, errors_seen, data, idlist, task, result,
                   permits, all_articles, completed>>
    /\ UNCHANGED <<citeVars, runVars, selVars, scholarVars>>

\* lines 77-86: the identifiers of the returned response; none: the next
\* phrase; some: one detail-fetch task for each
ReadIdlist ==
    /\ pc = "got_data"
    /\ idlist' = IdsOf(data)
    /\ attempt' = 0
    /\ sent' = 0
    /\ errors_seen' = 0
    /\ IF IdsOf(data) = <<>>
       THEN /\ phrase' = phrase + 1
            /\ pc' = "next_phrase"
            /\ UNCHANGED <<task, result, completed>>
       ELSE /\ task' = [i \in 1..Len(IdsOf(data)) |-> "created"]
            /\ result' = [i \in 1..Len(IdsOf(data)) |-> "pending"]
            /\ completed' = <<>>
            /\ pc' = "gather"
            /\ UNCHANGED phrase
    /\ UNCHANGED <<phrases, data, permits, all_articles>>
    /\ UNCHANGED <<citeVars, runVars, selVars, scholarVars>>

\* asyncio.Semaphore of Python 3.11. A task that finds the semaphore locked
\* waits in _waiters, in the order of its arrival; release() hands the
\* permit to the first waiting task inside the call, so that _value does not
\* change, and that task goes on at its next turn.

\* the tasks in _waiters: those that wait and those that were handed a
\* permit and have not had their turn
Waiters(tk) == {j \in DOMAIN tk : tk[j] \in {"waiting", "woken"}}

\* Semaphore.locked()
Locked(value, tk) == ~CanAcquire(value) \/ Waiters(tk) # {}

\* Semaphore._wake_up_next(): the first task of _waiters whose future is not
\* done takes a permit and is made ready
WakeUpNext(value, tk) ==
    IF \E j \in DOMAIN tk : tk[j] = "waiting"
    THEN LET first == CHOOSE j \in DOMAIN tk :
                          tk[j] = "waiting" /\ \A k \in 1..(j - 1) : tk[k] # "waiting"
         IN [value |-> value - 1, task |-> [tk EXCEPT ![first] = "woken"]]
    ELSE [value |-> value, task |-> tk]

\* Semaphore.release()
Release(value, tk) == WakeUpNext(value + 1, tk)

\* line 124, the first turn of a task: the tasks that gather has created
\* have their first turn in the order of idlist; the task enters the
\* semaphore and sends its request (line 125), or waits
Acquire(i) ==
    /\ pc = "gather"
    /\ task[i] = "created"
    /\ \A j \in 1..(i - 1) : task[j] # "created"
    /\ IF Locked(permits, task)
       THEN /\ task' = [task EXCEPT ![i] = "waiting"]
            /\ UNCHANGED permits
       ELSE /\ task' = [task EXCEPT ![i] = "requesting"]
            /\ permits' = permits - 1
    /\ UNCHANGED <<pc, phrases, phrase, attempt, sent, errors_seen, data, idlist, result,
                   all_articles, completed>>
    /\ UNCHANGED <<citeVars, runVars, selVars, scholarVars>>

\* lines 124-125: a task that was handed a permit has its turn: acquire()
\* returns and the request is sent
Resume(i) ==
    /\ pc = "gather"
    /\ task[i] = "woken"
    /\ \E entered \in {[task EXCEPT ![i] = "requesting"]} :
       \E next \in {IF permits > 0 THEN WakeUpNext(permits, entered)
                    ELSE [value |-> permits, task |-> entered]} :
          /\ task' = next.task
          /\ permits' = next.value
    /\ UNCHANGED <<pc, phrases, phrase, attempt, sent, errors_seen, data, idlist, result,
                   all_articles, completed>>
    /\ UNCHANGED <<citeVars, runVars, selVars, scholarVars>>

\* whether every task of the phrase has had its first turn: the responses
\* are handled in later turns of the event loop
AllStarted == \A j \in DOMAIN task : task[j] # "created"

\* line 125: the response has arrived, the body is being read
Respond(i) ==
    /\ pc = "gather"
    /\ AllStarted
    /\ task[i] = "requesting"
    /\ task' = [task EXCEPT ![i] = "reading"]
    /\ UNCHANGED <<pc, phrases, phrase, attempt, sent, errors_seen, data, idlist, result,
                   permits, all_articles, completed>>
    /\ UNCHANGED <<citeVars, runVars, selVars, scholarVars>>

\* lines 126-130: the body is read, the semaphore is left, the record is
\* parsed: a tuple, or None
ReadBody(i) ==
    /\ pc = "gather"
    /\ task[i] = "reading"
    /\ \E left \in {Release(permits, [task EXCEPT ![i] = "done"])} :
          /\ permits' = left.value
          /\ task' = left.task
    /\ \E parsed \in {"record", "none"} :
          /\ result' = [result EXCEPT ![i] = parsed]
          /\ completed' = IF parsed = "record" THEN Append(completed, i) ELSE completed
    /\ UNCHANGED <<pc, phrases, phrase, attempt, sent, errors_seen, data, idlist,
                   all_articles>>
    /\ UNCHANGED <<citeVars, runVars, selVars, scholarVars>>

\* a mutant of FetchRaises: the failing task asks again
FetchRaisesAsksAgain(i) ==
    /\ pc = "gather"
    /\ AllStarted
    /\ task[i] \in {"requesting", "reading"}
    /\ \E left \in {Release(permits, [task EXCEPT ![i] = "created"])} :
          /\ permits' = left.value
          /\ task' = left.task
    /\ UNCHANGED <<pc, phrases, phrase, attempt, sent, errors_seen, data, idlist, result,
                   all_articles, completed>>
    /\ UNCHANGED <<citeVars, runVars, selVars, scholarVars>>

\* a mutant of FetchRaises: the failing task keeps its permit
FetchRaisesKeepsPermit(i) ==
    /\ pc = "gather"
    /\ AllStarted
    /\ task[i] \in {"requesting", "reading"}
    /\ task' = [task EXCEPT ![i] = "done"]
    /\ result' = [result EXCEPT ![i] = "none"]
    /\ UNCHANGED <<pc, phrases, phrase, attempt, sent, errors_seen, data, idlist,
                   permits, all_articles, completed>>
    /\ UNCHANGED <<citeVars, runVars, selVars, scholarVars>>

\* lines 125-126 and 132-135: the request or the read raises; the semaphore
\* is left and the task returns None
FetchRaises(i) ==
    /\ pc = "gather"
    /\ AllStarted
    /\ task[i] \in {"requesting", "reading"}
    /\ \E left \in {Release(permits, [task EXCEPT ![i] = "done"])} :
          /\ permits' = left.value
          /\ task' = left.task
    /\ result' = [result EXCEPT ![i] = "none"]
    /\ UNCHANGED <<pc, phrases, phrase, attempt, sent, errors_seen, data, idlist,
                   all_articles, completed>>
    /\ UNCHANGED <<citeVars, runVars, selVars, scholarVars>>

\* a mutant of Gathered: the loop goes on as soon as one task has finished
GatheredFirstCompleted ==
    /\ pc = "gather"
    /\ \E i \in DOMAIN task : task[i] = "done"
    /\ all_articles' = all_articles \o Collected(phrases[phrase], idlist, result)
    /\ phrase' = phrase + 1
    /\ pc' = "next_phrase"
    /\ UNCHANGED <<phrases, attempt, sent, errors_seen, data, idlist, task, result, permits,
                   completed>>
    /\ UNCHANGED <<citeVars, runVars, selVars, scholarVars>>

\* lines 87-94: every task has finished; the records are appended
Gathered ==
    /\ pc = "gather"
    /\ \A i \in DOMAIN task : task[i] = "done"
    /\ all_articles' = all_articles \o Collected(phrases[phrase], idlist, result)
    /\ phrase' = phrase + 1
    /\ pc' = "next_phrase"
    /\ UNCHANGED <<phrases, attempt, sent, errors_seen, data, idlist, task, result, permits,
                   completed>>
    /\ UNCHANGED <<citeVars, runVars, selVars, scholarVars>>

NextFetch ==
    \/ NextPhrase
    \/ ReturnFrame
    \/ GetJson
    \/ GetJsonRaises
    \/ RetrySleep
    \/ ReadIdlist
    \/ \E i \in DOMAIN task : Acquire(i)
    \/ \E i \in DOMAIN task : Resume(i)
    \/ \E i \in DOMAIN task : Respond(i)
    \/ \E i \in DOMAIN task : ReadBody(i)
    \/ \E i \in DOMAIN task : FetchRaises(i)
    \/ Gathered

SpecFetch == InitFetch /\ [][NextFetch]_vars

\* C5: at every moment of every interleaving of the detail-fetch tasks, at
\* most 3 efetch requests are in flight, whatever the number of identifiers.
C5_AtMostThreeInFlight == Cardinality(InFlight) <= 3

\* three requests in flight while a fourth task waits at the semaphore
C5_Witness ==
    /\ Cardinality(InFlight) = 3
    /\ permits = 0
    /\ \E i \in DOMAIN task : task[i] = "waiting"

\* C6 as stated: when every attempt carried an "error" key, search_pubmed
\* treats the phrase as having no identifiers and goes on to the next phrase.
C6_ExhaustedMeansNoIdentifiers ==
    [][(pc = "got_data" /\ HasError(data)) =>
          (pc' = "next_phrase" /\ phrase' = phrase + 1)]_vars

\* C6, amended: _async_get_json issues at most Retries search requests;
\* every response before the last one read had an "error" key, so the first
\* response without one is returned with no further request; a response with
\* an "error" key is returned only as the last of Retries; search_pubmed then
\* reads the identifiers of the returned response: with none it goes on to
\* the next phrase, otherwise it fetches them.
C6_BoundedRetry ==
    /\ [](/\ sent <= Retries
          /\ errors_seen >= sent - 1
          /\ pc = "got_data" =>
                IF HasError(data)
                THEN sent = Retries /\ errors_seen = Retries
                ELSE errors_seen = sent - 1)
    /\ [][pc = "retry_sleep" => pc' \in {"get_json", "got_data"}]_vars
    /\ [][pc = "got_data" =>
            /\ idlist' = IdsOf(data)
            /\ IF IdsOf(data) = <<>>
               THEN pc' = "next_phrase" /\ phrase' = phrase + 1
                    /\ all_articles' = all_articles
               ELSE pc' = "gather" /\ Len(task') = Len(IdsOf(data))]_vars

\* the fifth response of a phrase had an "error" key and has been returned
C6_Witness ==
    /\ pc = "got_data"
    /\ HasError(data)
    /\ sent = Retries
    /\ phrase < Len(phrases)

-----------------------------------------------------------------------------
(* SpecMatch: the exact-match partition of select_papers, lines 45-70, on
   records and topics that tell the title from the abstract *)

TopicLowerGeneEditing == <<"g", "e", "n", "e", " ", "e", "d", "i", "t", "i", "n", "g">>

Title_CrisprGeneEditingMethods ==
    <<"C", "R", "I", "S", "P", "R", " ", "g", "e", "n", "e", " ", "e", "d", "i", "t", "i", "n", "g",
      " ", "m", "e", "t", "h", "o", "d", "s">>

Title_GeneTherapy == <<"g", "e", "n", "e", " ", "t", "h", "e", "r", "a", "p", "y">>

\* the topics select_papers is called with: lower case, mixed case with
\* runs of whitespace, one word, no word
MatchTopics ==
    { TopicLowerGeneEditing,
      <<" ", "G", "e", "n", "e", " ", "\t", "E", "D", "I", "T", "I", "N", "G", " ">>,
      <<"e", "d", "i", "t", "i", "n", "g">>,
      <<>> }

\* rows of df: both words in the title, one word in the title, the words
\* spread over title and abstract, both words in an upper-case abstract,
\* neither word and no abstract
MatchPool ==
    << Paper(Title_CrisprGeneEditingMethods, <<"x">>, "pubmed"),
       Paper(Title_GeneTherapy, <<"x">>, "pubmed"),
       Paper(<<"E", "d", "i", "t", "i", "n", "g">>, <<"a", " ", "g", "e", "n", "e">>, "pubmed"),
       Paper(<<"T", "h", "e", "r", "a", "p", "y">>,
             <<"E", "D", "I", "T", "I", "N", "G", " ", "a", " ", "G", "E", "N", "E">>, "pubmed"),
       Paper(<<"C", "e", "l", "l", "s">>, <<>>, "pubmed") >>

InitMatch ==
    /\ pc = "select_papers"
    /\ df \in Arrangements(MatchPool)
    /\ scholar_results = <<>>
    /\ topic \in MatchTopics
    /\ num_papers = 0
    /\ content = <<>>
    /\ sel = NoFrames
    /\ llm_cites = <<>>
    /\ llm_entries = 0
    /\ llm_tail = "none"
    /\ review_text = <<>>
    /\ bibliography = <<>>
    /\ refined_text = <<>>
    /\ citations = NoOutcome
    /\ valid = NoOutcome
    /\ refined = NoOutcome
    /\ RunIdle
    /\ FetchIdle
    /\ ScholarIdle

NextMatch == SelectNothing \/ SelectWithoutRanking

SpecMatch == InitMatch /\ [][NextMatch]_vars

\* the whitespace-delimited tokens of s: its maximal runs without whitespace
TokensOf(s) ==
    {SubSeq(s, i, j) : i \in 1..Len(s), j \in 1..Len(s)} \cap
    {SubSeq(s, ij[1], ij[2]) :
        ij \in {x \in (1..Len(s)) \X (1..Len(s)) :
                   /\ x[1] <= x[2]
                   /\ \A k \in x[1]..x[2] : s[k] \notin Whitespace
                   /\ (x[1] = 1 \/ s[x[1] - 1] \in Whitespace)
                   /\ (x[2] = Len(s) \/ s[x[2] + 1] \in Whitespace)}}

\* w appears in s
AppearsIn(w, s) == \E p \in 1..(Len(s) - Len(w) + 1) : SubSeq(s, p, p + Len(w) - 1) = w

\* every token of the lowercased topic appears in the lowercased text
AllTokensIn(t, text) ==
    \E low \in {Lower(text)} : \A w \in TokensOf(Lower(t)) : AppearsIn(w, low)

\* the labels of the rows of a partition
LabelsOf(frame) == {frame[k].label : k \in 1..Len(frame)}

\* C11: a merged record is an exact match if and only if every
\* whitespace-delimited lowercase token of the topic appears in its
\* lowercased title, or every token appears in its lowercased abstract
\* (tokens split between title and abstract do not qualify); for the topic
\* "gene editing" the title "CRISPR gene editing methods" is an exact match
\* and the title "gene therapy" is not; every merged record is in exactly
\* one of the two partitions.
C11_ExactMatchIff ==
    (pc = "selected" /\ sel # NoFrames) =>
        /\ \A k \in 1..Len(sel.combined_df) :
              LET row == sel.combined_df[k]
                  exact == (k - 1) \in LabelsOf(sel.exact_match_df)
                  other == (k - 1) \in LabelsOf(sel.other_papers_df)
              IN /\ exact <=> (AllTokensIn(topic, row.title) \/ AllTokensIn(topic, row.abstract))
                 /\ exact <=> ~other
                 /\ (topic = TopicLowerGeneEditing /\ row.title = Title_CrisprGeneEditingMethods)
                        => exact
                 /\ (topic = TopicLowerGeneEditing /\ row.title = Title_GeneTherapy)
                        => other
        /\ \A k \in 1..Len(sel.exact_match_df) :
              sel.exact_match_df[k].row = sel.combined_df[sel.exact_match_df[k].label + 1]
        /\ \A k \in 1..Len(sel.other_papers_df) :
              sel.other_papers_df[k].row = sel.combined_df[sel.other_papers_df[k].label + 1]
        /\ Len(sel.exact_match_df) + Len(sel.other_papers_df) = Len(sel.combined_df)

\* for "gene editing": the title with both words is an exact match, the
\* title with one word and the record with the words spread are not
C11_Witness ==
    /\ pc = "selected"
    /\ topic = TopicLowerGeneEditing
    /\ \E x \in Range(sel.exact_match_df) : x.row.title = Title_CrisprGeneEditingMethods
    /\ \E x \in Range(sel.other_papers_df) : x.row.title = Title_GeneTherapy
    /\ \E x \in Range(sel.other_papers_df) : x.row.title = <<"E", "d", "i", "t", "i", "n", "g">>
    /\ \E x \in Range(sel.exact_match_df) : x.row.title = <<"T", "h", "e", "r", "a", "p", "y">>

-----------------------------------------------------------------------------
(* the output of select_papers, under SpecSelect *)

\* C12: in the output of select_papers every exact-match record of the
\* merged collection is present, the exact matches keep their relative merge
\* order, and every exact match precedes every ranked (non-exact) record,
\* whatever the ranking response.
C12_ExactMatchesFirst ==
    (pc = "selected" /\ sel # NoFrames) =>
        \E exact \in {SelectSeq(sel.combined_df, LAMBDA row : IsExactMatch(row, topic))} :
            /\ Len(sel.final_df) >= Len(exact)
            /\ SubSeq(sel.final_df, 1, Len(exact)) = exact
            /\ \A k \in (Len(exact) + 1)..Len(sel.final_df) :
                  ~IsExactMatch(sel.final_df[k], topic)

\* the ranking model was called and the output holds an exact match and a
\* ranked record
C12_Witness ==
    /\ pc = "selected"
    /\ sel.ranked
    /\ Len(sel.exact_match_df) >= 1
    /\ Len(sel.selected_other_papers) >= 1
    /\ Len(sel.final_df) = Len(sel.exact_match_df) + Len(sel.selected_other_papers)

\* a line of the form row:value: digits, the first colon, digits
ParseableLine(rawline) ==
    \E line \in {Strip(rawline)} :
    \E p \in 1..Len(line) :
        /\ line[p] = ":"
        /\ p > 1
        /\ p < Len(line)
        /\ \A k \in 1..(p - 1) : line[k] \in DigitSet
        /\ \A k \in (p + 1)..Len(line) : line[k] \in DigitSet

\* the lines of a text
LinesOf(text) == Range(SplitOn(text, <<"\n">>))

\* C13: if the ranking response contains no parseable row:value line,
\* select_papers raises no error and its output consists of exactly the
\* exact-match records (the ranked selection is empty).
C13_UnusableReplyKeepsExactMatches ==
    (\A line \in LinesOf(content) : ~ParseableLine(line)) =>
        /\ pc # "raised"
        /\ (pc = "selected" /\ sel.ranked) =>
              /\ sel.assignments = <<>>
              /\ sel.selected_other_papers = <<>>
              /\ sel.final_df = [k \in 1..Len(sel.exact_match_df) |-> sel.exact_match_df[k].row]

-----------------------------------------------------------------------------
(* failures of the asynchronous search, under SpecFetch *)

\* the part of all_articles' appended by the step
Appended == SubSeq(all_articles', Len(all_articles) + 1, Len(all_articles'))

\* C14: a detail fetch that fails (network error or unparsable record) yields
\* no record for that identifier and nothing more: search_pubmed does not
\* raise, the records of all other identifiers of the same phrase are still
\* returned, and the following phrases are still processed.
C14_FailedFetchLosesOneRecord ==
    /\ [][pc = "gather" =>
            /\ pc' \in {"gather", "next_phrase"}
            /\ pc' = "next_phrase" =>
                  /\ \A i \in DOMAIN idlist :
                        (result[i] = "record") <=>
                            (<<phrases[phrase], idlist[i]>> \in Range(Appended))
                  /\ Len(Appended) = Cardinality({i \in DOMAIN idlist : result[i] = "record"})
                  /\ phrase' = phrase + 1]_vars
    /\ [][/\ Len(all_articles') >= Len(all_articles)
          /\ SubSeq(all_articles', 1, Len(all_articles)) = all_articles]_vars
    /\ []((pc = "next_phrase" /\ phrase <= Len(phrases)) => ENABLED NextPhrase)

\* the first detail fetch of a phrase failed, a later one gave its record,
\* which has been collected, and a phrase is still to be processed
C14_Witness ==
    /\ pc = "next_phrase"
    /\ phrase = 2
    /\ Len(phrases) = 2
    /\ Len(result) >= 3
    /\ result[1] = "none"
    /\ result[2] = "record"
    /\ result[3] = "none"
    /\ all_articles = << <<phrases[1], idlist[2]>> >>

\* C15: if the search-listing request of one phrase fails transiently
\* (timeout, connection error, malformed JSON, or a payload without the
\* expected result key), search_pubmed recovers it as "no data for this
\* phrase": it does not raise, goes on with the remaining phrases, and
\* returns the records already obtained for earlier phrases. As a formula:
\* search_pubmed is never left by the exception of a search
\* request: every phrase ends in the next phrase or in the returned frame.
C15_ListingFailureRecovered == pc # "raised"

-----------------------------------------------------------------------------
(* the claims about scholar_and_pubmed_search, under SpecScholar *)

\* C16: a title whose cross-reference fails at any point (no result link,
\* no abstract block, or a failed listing or detail-page fetch) yields no
\* record for that title and is never fatal: the call still returns the
\* records of every other title whose cross-reference succeeded.
C16_FailedCrossReferenceNotFatal ==
    [][pc = "xref" => pc' \in {"xref", "scholar_returned"}]_vars

\* C17: the returned list holds no two records with the same normalized
\* (trimmed) abstract, every returned record has a non-empty abstract, and
\* when several listing titles resolve to the same abstract the record kept
\* is the one of the title that comes first in listing order.
C17_OneRecordPerAbstract ==
    pc = "scholar_returned" =>
        /\ \A i, j \in 1..Len(scholar_list) :
              i # j => Strip(scholar_list[i].abstract) # Strip(scholar_list[j].abstract)
        /\ \A i \in 1..Len(scholar_list) : scholar_list[i].abstract # <<>>
        /\ \A k \in 1..Len(all_titles) :
              (\E i \in 1..Len(scholar_list) : scholar_list[i].title = all_titles[k])
              <=> /\ pubmed_results[k].state = "data"
                  /\ \A e \in 1..(k - 1) :
                        pubmed_results[e].state = "data" =>
                            Strip(pubmed_results[e].abstract) # Strip(pubmed_results[k].abstract)
        /\ \A i \in 1..Len(scholar_list) :
              \E k \in 1..Len(all_titles) :
                  /\ scholar_list[i].title = all_titles[k]
                  /\ scholar_list[i].abstract = pubmed_results[k].abstract

\* three titles, the first two resolved to the same abstract: the list holds
\* the first and the third
C17_Witness ==
    /\ pc = "scholar_returned"
    /\ Len(all_titles) = 3
    /\ pubmed_results[1].state = "data"
    /\ pubmed_results[2].state = "data"
    /\ pubmed_results[3].state = "data"
    /\ pubmed_results[1].abstract = pubmed_results[2].abstract
    /\ pubmed_results[3].abstract # pubmed_results[1].abstract
    /\ Len(scholar_list) = 2
    /\ scholar_list[1].title = all_titles[1]
    /\ scholar_list[2].title = all_titles[3]

-----------------------------------------------------------------------------
(* SpecFetchLive: SpecFetch where the event loop keeps running the detail
   tasks: a created task has its first turn, a task that was handed a permit
   has its turn, and a request in flight gets its response, its body or an
   exception *)

\* one step of some detail-fetch task of the current phrase
TaskStep ==
    \E i \in DOMAIN task :
        Acquire(i) \/ Resume(i) \/ Respond(i) \/ ReadBody(i) \/ FetchRaises(i)

SpecFetchLive == SpecFetch /\ WF_vars(TaskStep)

\* the tasks that have not entered the semaphore
Outside == {i \in DOMAIN task : task[i] \in {"created", "waiting", "woken"}}

\* the waiting tasks a released permit was handed to, whose request is not
\* yet sent
HandedOver == {i \in DOMAIN task : task[i] = "woken"}

\* C19 as stated: the gate is released on every exit path of a detail fetch:
\* the number of held permits equals the number of requests in flight, all 3
\* permits are free whenever no fetch is in flight (also across successive
\* phrases), and every launched detail-fetch task eventually acquires the
\* gate provided each in-flight request returns or fails.
C19_GateReleasedOnEveryPath ==
    /\ [](SemaphoreValue - permits = Cardinality(InFlight))
    /\ [](InFlight = {} => permits = 3)
    /\ (pc = "gather" /\ Outside # {}) ~> (Outside = {})

\* C19, amended: the gate is released on every exit path of a detail fetch:
\* the number of held permits equals the number of requests in flight plus
\* the number of waiting tasks a released permit was handed to and whose
\* request is not yet sent, all 3 permits are free whenever no fetch is in
\* flight and no such task exists (also across successive phrases), and
\* every launched detail-fetch task eventually acquires the gate provided
\* each in-flight request returns or fails.
C19_PermitsHeldOrHandedOver ==
    /\ [](SemaphoreValue - permits = Cardinality(InFlight) + Cardinality(HandedOver))
    /\ []((InFlight = {} /\ HandedOver = {}) => permits = 3)
    /\ (pc = "gather" /\ Outside # {}) ~> (Outside = {})

\* in the second phrase, after a failed fetch, the fourth task has been
\* handed the permit the failed one gave back and has not sent its request
C19_Witness ==
    /\ pc = "gather"
    /\ phrase = 2
    /\ Len(task) >= 4
    /\ task[1] = "done" /\ result[1] = "none"
    /\ task[4] = "woken"
    /\ Cardinality(InFlight) = 2
    /\ permits = 0

\* the steps of search_pubmed between two gathers: the search request of a
\* phrase, its retries and the reading of its identifiers
Searching == pc \in {"next_phrase", "get_json", "retry_sleep", "got_data"}

\* C20: phrases are processed strictly one after another: the search request
\* of a phrase is issued only after every detail-fetch task of the phrase
\* before it has finished, and the detail fetches of two phrases are never in
\* flight together.
C20_PhrasesOneAfterAnother ==
    /\ [](Searching => \A i \in DOMAIN task : task[i] = "done")
    /\ [](Searching => InFlight = {})
    /\ [][phrase' # phrase =>
            /\ phrase' = phrase + 1
            /\ \A i \in DOMAIN task : task[i] = "done"
            /\ InFlight' = {}]_vars
    /\ [][(\E i \in DOMAIN task' :
              task'[i] = "created" /\ (i \in DOMAIN task => task[i] # "created")) =>
            \A i \in DOMAIN task : task[i] = "done"]_vars

\* the search request of the second phrase is about to be sent, and the first
\* phrase had three detail fetches that all finished, one of them failed
C20_Witness ==
    /\ pc = "get_json"
    /\ phrase = 2
    /\ sent = 0
    /\ Len(task) = 3
    /\ \A i \in DOMAIN task : task[i] = "done"
    /\ result[2] = "none"
    /\ Len(all_articles) = 2

-----------------------------------------------------------------------------
(* order and repetition of the remote calls *)

\* the position of an identifier in the identifier list of the phrase
PositionOf(id) == CHOOSE k \in DOMAIN idlist : idlist[k] = id

\* the step in which the results of the gather are appended
Appending == pc = "gather" /\ pc' = "next_phrase"

\* C21 as stated: within one phrase the fetched records are appended in the
\* order in which their detail-fetch tasks complete, which need not be the
\* order of the identifier list.
C21_AppendedInCompletionOrder ==
    [][Appending =>
          Appended = [k \in 1..Len(completed) |-> <<phrases[phrase], idlist[completed[k]]>>]]_vars

\* C21, amended: within one phrase the fetched records are appended in the
\* order of the identifier list, whatever the order in which their
\* detail-fetch tasks complete.
C21_AppendedInIdentifierOrder ==
    [][Appending =>
          /\ Len(Appended) = Len(completed)
          /\ \A k \in DOMAIN completed :
                <<phrases[phrase], idlist[completed[k]]>> \in Range(Appended)
          /\ \A a, b \in DOMAIN Appended :
                a < b => PositionOf(Appended[a][2]) < PositionOf(Appended[b][2])]_vars

\* the third task gave its record before the first, the second failed, and
\* the records were appended first, third
C21_Witness ==
    /\ pc = "next_phrase"
    /\ phrase = 2
    /\ completed = <<3, 1>>
    /\ result[2] = "none"
    /\ all_articles = << <<phrases[1], idlist[1]>>, <<phrases[1], idlist[3]>> >>

(* SpecCalls: the remote calls of the two search clients, a run of
   search_pubmed or a run of scholar_and_pubmed_search *)

InitCalls == InitFetch \/ InitScholar

NextCalls == NextFetch \/ NextScholar

SpecCalls == InitCalls /\ [][NextCalls]_vars

\* the detail-fetch tasks of the phrase that have sent their request
Requested == {i \in DOMAIN task : task[i] \in {"requesting", "reading", "done"}}

\* the fetch_pubmed_info tasks that have sent their search request
XrefSearched == {i \in DOMAIN xref : xref[i] # "created"}

\* C22: only the search-listing call is ever repeated, and only when the
\* response carries an "error" key: every detail fetch of an identifier of a
\* phrase, every scholar listing page and every cross-reference request of a
\* title is issued exactly once, and a failure of such a call is never
\* followed by a second request for the same item.
C22_OnlySearchListingRepeated ==
    \* a second search request of a phrase follows a response with "error"
    /\ [][(sent' = sent + 1 /\ sent >= 1) => HasError(data)]_vars
    \* while the tasks of a phrase run, a detail fetch is requested only by
    \* a task that has not requested, and a task that has never does again
    /\ [][(pc = "gather" /\ pc' = "gather") =>
            \A i \in DOMAIN task :
                /\ (task'[i] = "requesting" /\ task[i] # "requesting") =>
                       task[i] \in {"created", "woken"}
                /\ i \in Requested => i \in Requested'
                /\ task[i] = "done" => task'[i] = "done" /\ result'[i] = result[i]]_vars
    \* when the gather returns every identifier has been requested
    /\ [][Appending => Requested = DOMAIN idlist /\ UNCHANGED <<task, result>>]_vars
    \* the listing pages are requested one after the other, each once
    /\ [][page' # page => page' = page + 1 /\ page < ScholarPageCount]_vars
    /\ [](pc = "xref" => page = ScholarPageCount)
    \* a cross-reference search is sent by a created task only, the request
    \* of the article page only by a task that reads its search page, and a
    \* task never goes back
    /\ [][\A i \in DOMAIN xref :
            /\ i \in DOMAIN xref'
            /\ (xref'[i] = "searching" /\ xref[i] # "searching") => xref[i] = "created"
            /\ (xref'[i] = "linked" /\ xref[i] # "linked") => xref[i] = "search_read"
            /\ xref[i] = "searching" => xref'[i] \in {"searching", "search_read", "failed"}
            /\ xref[i] = "search_read" =>
                   xref'[i] \in {"search_read", "linked", "done", "failed"}
            /\ xref[i] \in {"linked", "detail_read"} =>
                   xref'[i] \in {"linked", "detail_read", "done", "failed"}
            /\ xref[i] = "done" => xref'[i] = "done" /\ pubmed_results'[i] = pubmed_results[i]
            \* a task that failed sends nothing more, whatever the others do
            /\ xref[i] = "failed" => xref'[i] = "failed"]_vars
    /\ [](xref # <<>> /\ pc = "scholar_returned" => XrefSearched = DOMAIN all_titles)
    \* after a listing page failed no listing page is requested, and after
    \* the search request of a phrase raised search_pubmed requests nothing
    /\ [][pc = "raised" => UNCHANGED <<page, all_titles, fetchVars>>]_vars

\* the cross-reference of the first of three titles failed and its
\* exception has left scholar_and_pubmed_search; the task of the second title
\* went on to its record and the task of the third waits for its article page
C22_Witness ==
    /\ pc = "raised"
    /\ page = ScholarPageCount
    /\ Len(xref) = 3
    /\ xref[1] = "failed"
    /\ xref[2] = "done"
    /\ pubmed_results[2].state = "data"
    /\ xref[3] = "linked"

-----------------------------------------------------------------------------
(* the ranking of the non-exact records, under SpecSelect *)

\* C23: the number under which each non-exact-match record is shown in the
\* ranking prompt is its position in the filtered (non-exact) collection, so
\* that an accepted reply line i:v with v > 0 selects exactly the record the
\* prompt showed as paper i, for every partition of the merged collection.
C23_PromptNumberIsPosition ==
    (pc = "selected" /\ sel.ranked) =>
        /\ \A k \in 1..Len(sel.other_papers_df) :
              PromptNumbers(sel.other_papers_df)[k] = k - 1
        /\ \A a \in 1..Len(sel.assignments) :
              sel.assignments[a][2] > 0 =>
                  \E k \in 1..Len(sel.other_papers_df) :
                      /\ PromptNumbers(sel.other_papers_df)[k] = sel.assignments[a][1]
                      /\ sel.other_papers_df[k].row \in Range(sel.final_df)

\* the value the reply assigned to a row of other_papers_df, 0 if none
ValueOf(frames, row) ==
    IF \E a \in 1..Len(frames.assignments) : frames.assignments[a][1] = row
    THEN frames.assignments[CHOOSE a \in 1..Len(frames.assignments) :
                                frames.assignments[a][1] = row][2]
    ELSE 0

\* the position in other_papers_df of the k-th selected record
RowOfSelected(frames, k) ==
    CHOOSE r \in 0..(Len(frames.other_papers_df) - 1) :
        frames.other_papers_df[r + 1] = frames.selected_other_papers[k]

\* C24: the ranked records are emitted in ascending order of their assigned
\* rank, and two accepted rows with the same rank are emitted in their
\* original row order (lower row position first), whatever the order in which
\* the reply listed them; duplicate ranks never make the sort fail.
C24_AscendingRankTiesByRow ==
    (pc = "selected" /\ sel.ranked) =>
        \A j, k \in 1..Len(sel.selected_other_papers) :
            j < k =>
                \/ ValueOf(sel, RowOfSelected(sel, j)) < ValueOf(sel, RowOfSelected(sel, k))
                \/ /\ ValueOf(sel, RowOfSelected(sel, j)) = ValueOf(sel, RowOfSelected(sel, k))
                   /\ RowOfSelected(sel, j) < RowOfSelected(sel, k)

\* the row and the value of a line of the form row:value
RowIn(rawline) ==
    LET line == Strip(rawline)
    IN DecVal(SubSeq(line, 1, Find(line, <<":">>, 1) - 1))

ValueIn(rawline) ==
    LET line == Strip(rawline)
    IN DecVal(SubSeq(line, Find(line, <<":">>, 1) + 1, Len(line)))

\* a line the parse is to accept: row:value, both non-negative integers,
\* the row one of the non-exact records, the value at most R
AcceptableLine(rawline, rows, R) ==
    /\ ParseableLine(rawline)
    /\ RowIn(rawline) < rows
    /\ ValueIn(rawline) <= R

\* C25: parsing of the ranking response never raises and accepts a line
\* exactly when it has the form row:value with both tokens non-negative
\* integers, 0 <= row < number of non-exact records and 0 <= value <= R; a
\* line without a colon, with a non-integer token, or with row or value out of
\* bounds has no effect on the selection.
C25_ParseNeverRaises ==
    /\ pc # "raised"
    /\ (pc = "selected" /\ sel.ranked) =>
          \E lines \in {SplitOn(Strip(content), <<"\n">>)} :
             \A row \in 0..(Len(sel.other_papers_df) - 1) :
                \A v \in 0..sel.remaining_papers :
                   (\E a \in 1..Len(sel.assignments) : sel.assignments[a] = <<row, v>>)
                   <=> \E k \in 1..Len(lines) :
                          /\ AcceptableLine(lines[k], Len(sel.other_papers_df),
                                            sel.remaining_papers)
                          /\ RowIn(lines[k]) = row /\ ValueIn(lines[k]) = v
                          /\ \A j \in (k + 1)..Len(lines) :
                                AcceptableLine(lines[j], Len(sel.other_papers_df),
                                               sel.remaining_papers)
                                    => RowIn(lines[j]) # row

-----------------------------------------------------------------------------
(* SpecMalformed: the citation functions applied to narratives with a
   bracket group that the scan pattern matches and that is not well formed *)

\* groups matched by \[([\d\s,\-]+)\] that are no list of numbers and ranges:
\* an empty part, two hyphens in a part, a dangling hyphen, two numbers
\* separated by a space
MalformedGroups ==
    { <<"[", "1", ",", ",", "2", "]">>,
      <<"[", " ", "]">>,
      <<"[", ",", "]">>,
      <<"[", "1", "-", "2", "-", "3", "]">>,
      <<"[", "3", "-", "]">>,
      <<"[", "1", " ", "2", "]">> }

MalformedTexts == {PlanText(p) \o <<" ">> \o g : p \in Plans, g \in MalformedGroups}

InitMalformed ==
    /\ \E text \in MalformedTexts :
          \/ /\ pc = "start"
             /\ review_text = text
             /\ refined_text = <<>>
          \/ /\ pc = "call"
             /\ review_text = AuthorDateReview
             /\ refined_text = ReplyText(text, "none", 0)
    /\ bibliography = BibText(MaxBib)
    /\ llm_cites = <<>>
    /\ llm_entries = MaxBib
    /\ llm_tail = "none"
    /\ citations = NoOutcome
    /\ valid = NoOutcome
    /\ refined = NoOutcome
    /\ RunIdle
    /\ SelectIdle
    /\ FetchIdle
    /\ ScholarIdle

NextMalformed == ExtractCitations \/ VerifyCitations \/ RefineReview

SpecMalformed == InitMalformed /\ [][NextMalformed]_vars

\* C26: extract_citations, and therefore verify_citations and refine_review,
\* returns a result without raising for every narrative text, also for texts
\* with bracket groups that match the scan pattern and are not well formed:
\* "[1,,2]", "[ ]", "[,]", "[1-2-3]", "[3-]", "[1 2]".
C26_MalformedGroupsTolerated ==
    /\ pc = "extracted" => citations.ok
    /\ pc = "verified" => valid.ok
    /\ pc = "refined" => refined.ok

-----------------------------------------------------------------------------
(* the order of the searches in run, under Spec *)

\* the place of the first event of that name in events, 0 if there is none
PlaceOf(event) ==
    IF event \in Range(events)
    THEN CHOOSE k \in DOMAIN events :
             events[k] = event /\ \A j \in 1..(k - 1) : events[j] # event
    ELSE 0

\* event a has happened, and before event b if that has happened too
Before(a, b) == PlaceOf(a) # 0 /\ (PlaceOf(b) # 0 => PlaceOf(a) < PlaceOf(b))

\* a metadata search has been started
MetadataSearchStarted ==
    "exact_search" \in Range(events) \/ "additional_search" \in Range(events)

\* the scholar discovery has completed: every listing page is read, every
\* cross-reference task has returned and the records are combined
ScholarCompleted ==
    /\ "scholar_search" \in Range(events)
    /\ pc \notin {"scholar_pages", "xref"}
    /\ page = ScholarPageCount
    /\ \A i \in DOMAIN xref : xref[i] = "done"

\* the scholar discovery has been started and has not completed
ScholarRunning ==
    /\ "scholar_search" \in Range(events)
    /\ pc \in {"scholar_pages", "xref"}

\* C27: phrase expansion happens before the metadata search over the
\* generated phrases, the metadata search and the scholar discovery execute
\* in parallel (while the scholar discovery has not completed, the metadata
\* search can start: its first step is enabled), and the aggregator starts
\* only after both have completed.
C27_SearchesInParallel ==
    /\ "additional_search" \in Range(events) => Before("phrases", "additional_search")
    /\ (ScholarRunning /\ ~MetadataSearchStarted) => ENABLED ExactSearch
    /\ "select" \in Range(events) =>
          /\ ScholarCompleted
          /\ Before("scholar_search", "select") /\ Before("additional_search", "select")

-----------------------------------------------------------------------------
(* the ranking call and the provenance of the output, under SpecSelect *)

\* C28: select_papers calls the ranking model only when the target selection
\* size exceeds the exact-match count and at least one non-exact record
\* exists; when exact_match_count >= target_size no ranking call is made and
\* the output is exactly the set of exact matches, all retained even if they
\* are more than target_size.
C28_RankingOnlyWhenNeeded ==
    /\ pc = "raised" => content # <<>>
    /\ pc \in {"selected", "raised"} =>
          \E combined \in {Combined(df, scholar_results)} :
          \E exact \in {SelectSeq(combined, LAMBDA r : IsExactMatch(r, topic))} :
             /\ (sel.ranked \/ pc = "raised") <=>
                    /\ ~(df = <<>> /\ scholar_results = <<>>)
                    /\ num_papers > Len(exact)
                    /\ Len(exact) < Len(combined)
             /\ (pc = "selected" /\ Len(exact) >= num_papers) =>
                    /\ ~sel.ranked
                    /\ content = <<>>
                    /\ sel.final_df = exact

\* two exact matches for a target size of one: no ranking call, both returned
C28_Witness ==
    /\ pc = "selected"
    /\ ~sel.ranked
    /\ num_papers = 1
    /\ Len(sel.exact_match_df) = 2
    /\ Len(sel.other_papers_df) >= 1
    /\ Len(sel.final_df) = 2

\* the value the last acceptable line of the reply gave to a row, 0 if no
\* acceptable line names the row
LastAcceptedValue(reply, row, rows, R) ==
    LET lines == SplitOn(Strip(reply), <<"\n">>)
        naming == {k \in 1..Len(lines) :
                      AcceptableLine(lines[k], rows, R) /\ RowIn(lines[k]) = row}
    IN IF naming = {} THEN 0
       ELSE ValueIn(lines[CHOOSE k \in naming : \A j \in naming : j <= k])

\* C30: select_papers never fabricates or silently promotes a record: every
\* record of its output is a record of the merged input collection, and a
\* non-exact-match record is in the output only if the last accepted line of
\* the reply for its row gave it a value in 1..R (a row whose last accepted
\* value is 0, or that has no accepted line, is absent).
C30_NoFabricationNoPromotion ==
    (pc = "selected" /\ sel # NoFrames) =>
        /\ \A k \in 1..Len(sel.final_df) :
              sel.final_df[k] \in Range(df) \cup Range(scholar_results)
        /\ \A r \in 1..Len(sel.other_papers_df) :
              (sel.other_papers_df[r].row \in Range(sel.final_df)) =>
                  /\ sel.ranked
                  /\ LastAcceptedValue(content, r - 1, Len(sel.other_papers_df),
                                       num_papers - Len(sel.exact_match_df))
                         \in 1..(num_papers - Len(sel.exact_match_df))
        /\ \A k \in 1..Len(sel.final_df) :
              \/ IsExactMatch(sel.final_df[k], topic)
              \/ \E r \in 1..Len(sel.other_papers_df) :
                    sel.other_papers_df[r].row = sel.final_df[k]

\* the reply gave row 1 the value 1 and then the value 0: the record of row 1
\* is not in the output
C30_Witness ==
    /\ pc = "selected"
    /\ sel.ranked
    /\ content = <<"1", ":", "1", "\n", "1", ":", "0">>
    /\ Len(sel.other_papers_df) = 2
    /\ sel.assignments = << <<1, 0>> >>
    /\ sel.other_papers_df[2].row \notin Range(sel.final_df)

=============================================================================
